---------------------------- MODULE Spec2Model ----------------------------
(***************************************************************************)
(* Block Householder application and the rank-r LDLT update of faer.       *)
(*                                                                         *)
(* Scalars are exact: a real is a fraction <<n, d>> in lowest terms with   *)
(* d >= 0, where d = 0 encodes the IEEE values +inf (<<1, 0>>), -inf       *)
(* (<<-1, 0>>) and NaN (<<0, 0>>); a complex number is a pair <<re, im>>   *)
(* of reals.  Rounding is not modelled.  Matrices are records              *)
(* [nrows, ncols, e] with e[i][c] the entry at row i, column c, 0-based.   *)
(***************************************************************************)
EXTENDS Integers, Sequences, FiniteSets, TLC

VARIABLES
    pc,          \* control location of the running call
    arg,         \* the arguments the call was entered with
    matrix,      \* the operand of a Householder application, as the caller holds it
    j,           \* loop cursor of a sequence driver / column of the rank update
    blocksize,   \* width of the next block of the forward sequence driver
    applied,     \* blocks handed to the single-block application, in call order
    ld,          \* the factorization buffer of the rank update
    w,           \* the perturbation basis of the rank update
    alpha,       \* the diagonal scaling of the rank update
    head,        \* make_householder_in_place: the leading scalar
    tail,        \* make_householder_in_place: the tail vector
    ret          \* value returned by the call

vars == <<pc, arg, matrix, j, blocksize, applied, ld, w, alpha, head, tail, ret>>

Null == <<>>

\* TLC evaluates a function constructor lazily; comparing a value with itself
\* makes it build the value once.  Force(x) is x.  Operators below that test
\* x = x for their intermediate values do so to build them one after another.
Force(x) == IF x = x THEN x ELSE x

(***************************************************************************)
(* Real arithmetic                                                         *)
(***************************************************************************)
Sgn(n) == IF n > 0 THEN 1 ELSE IF n < 0 THEN -1 ELSE 0

AbsInt(n) == IF n < 0 THEN -n ELSE n

RECURSIVE GCD(_, _)
GCD(a, b) == IF b = 0 THEN a ELSE GCD(b, a % b)

\* n / d divided through by g, with the sign s of d moved to the numerator
Reduce(n, d, g, s) == <<(s * n) \div g, (s * d) \div g>>

RNorm(n, d) ==
    IF d = 0 THEN <<Sgn(n), 0>>
    ELSE IF d = 1 THEN <<n, 1>>
    ELSE Reduce(n, d, GCD(AbsInt(n), AbsInt(d)), Sgn(d))

RZero == <<0, 1>>
ROne == <<1, 1>>
RInf == <<1, 0>>
RNaN == <<0, 0>>

RInt(n) == <<n, 1>>

\* a + b over the least common denominator, g the gcd of the denominators
RAddOver(a, b, g) ==
    RNorm(a[1] * (b[2] \div g) + b[1] * (a[2] \div g), (a[2] \div g) * b[2])

RAdd(a, b) ==
    IF a[2] = 0 /\ b[2] = 0
    THEN (IF a = b THEN a ELSE RNaN)
    ELSE IF a[2] = 1 /\ b[2] = 1 THEN <<a[1] + b[1], 1>>
    ELSE IF a[2] = 0 \/ b[2] = 0 THEN RNorm(a[1] * b[2] + b[1] * a[2], 0)
    ELSE RAddOver(a, b, GCD(a[2], b[2]))

RNeg(a) == <<-a[1], a[2]>>

RSub(a, b) == RAdd(a, RNeg(b))

\* a * b with the common factors g1 of a[1], b[2] and g2 of b[1], a[2] cancelled
RMulOver(a, b, g1, g2) ==
    RNorm((a[1] \div g1) * (b[1] \div g2), (a[2] \div g2) * (b[2] \div g1))

RMul(a, b) ==
    IF a[2] = 1 /\ b[2] = 1 THEN <<a[1] * b[1], 1>>
    ELSE IF a[2] = 0 \/ b[2] = 0 THEN RNorm(a[1] * b[1], 0)
    ELSE RMulOver(a, b, GCD(AbsInt(a[1]), b[2]), GCD(AbsInt(b[1]), a[2]))

RRecip(a) == RNorm(a[2], a[1])

RLt(a, b) ==
    /\ a # RNaN
    /\ b # RNaN
    /\ IF a[2] = 0 /\ b[2] = 0 THEN a[1] < b[1]
       ELSE a[1] * b[2] < b[1] * a[2]

RAbs(a) == <<AbsInt(a[1]), a[2]>>

\* the exact square root of a non-negative integer that is a perfect square
ISqrt(n) == CHOOSE r \in 0..n : r * r = n

IsSquareInt(n) == n >= 0 /\ \E r \in 0..n : r * r = n

IsSquare(a) == a[2] > 0 /\ IsSquareInt(a[1]) /\ IsSquareInt(a[2])

RSqrt(a) == <<ISqrt(a[1]), ISqrt(a[2])>>

(***************************************************************************)
(* Complex arithmetic                                                      *)
(***************************************************************************)
CZero == <<RZero, RZero>>
COne == <<ROne, RZero>>

Cx(a, b) == <<RInt(a), RInt(b)>>

from_real(r) == <<r, RZero>>

real(z) == z[1]

imag(z) == z[2]

conj(z) == <<z[1], RNeg(z[2])>>

CAdd(x, y) == <<RAdd(x[1], y[1]), RAdd(x[2], y[2])>>

CNeg(x) == <<RNeg(x[1]), RNeg(x[2])>>

CSub(x, y) == CAdd(x, CNeg(y))

mul(x, y) ==
    <<RSub(RMul(x[1], y[1]), RMul(x[2], y[2])),
      RAdd(RMul(x[1], y[2]), RMul(x[2], y[1]))>>

mul_real(x, r) == <<RMul(x[1], r), RMul(x[2], r)>>

abs2(x) == RAdd(RMul(x[1], x[1]), RMul(x[2], x[2]))

recip(x) == mul_real(conj(x), RRecip(abs2(x)))

\* Conj::Yes / Conj::No as booleans; compose is exclusive or
compose(c1, c2) == c1 # c2

ConjIf(c, z) == IF c THEN conj(z) ELSE z

(***************************************************************************)
(* Matrices and views                                                      *)
(***************************************************************************)
Rows(A) == 0..(A.nrows - 1)

Cols(A) == 0..(A.ncols - 1)

Transpose(A) ==
    Force([nrows |-> A.ncols, ncols |-> A.nrows,
     e |-> [i \in Cols(A) |-> [c \in Rows(A) |-> A.e[c][i]]]])

Conjugate(A, cj) ==
    Force([nrows |-> A.nrows, ncols |-> A.ncols,
     e |-> [i \in Rows(A) |-> [c \in Cols(A) |-> ConjIf(cj, A.e[i][c])]]])

\* rows [r0, r1) and columns [c0, c1) of A
submatrix_range(A, r0, r1, c0, c1) ==
    Force([nrows |-> r1 - r0, ncols |-> c1 - c0,
     e |-> [i \in 0..(r1 - r0 - 1) |-> [c \in 0..(c1 - c0 - 1) |-> A.e[r0 + i][c0 + c]]]])

\* A with rows [r0, r0 + S.nrows) x columns [c0, c0 + S.ncols) overwritten by S
WriteBack(A, r0, c0, S) ==
    Force([nrows |-> A.nrows, ncols |-> A.ncols,
     e |-> [i \in Rows(A) |-> [c \in Cols(A) |->
              IF i >= r0 /\ i < r0 + S.nrows /\ c >= c0 /\ c < c0 + S.ncols
              THEN S.e[i - r0][c - c0] ELSE A.e[i][c]]]])

\* sum of f[lo], ..., f[hi - 1]
RECURSIVE CSum(_, _, _)
CSum(f, lo, hi) == IF lo >= hi THEN CZero ELSE CAdd(CSum(f, lo, hi - 1), f[hi - 1])

MatMul(A, B) ==
    Force([nrows |-> A.nrows, ncols |-> B.ncols,
     e |-> [i \in Rows(A) |-> [c \in Cols(B) |->
              CSum([k \in Cols(A) |-> mul(A.e[i][k], B.e[k][c])], 0, A.ncols)]]])

MatAdd(A, B) ==
    Force([nrows |-> A.nrows, ncols |-> A.ncols,
     e |-> [i \in Rows(A) |-> [c \in Cols(A) |-> CAdd(A.e[i][c], B.e[i][c])]]])

MatSub(A, B) ==
    Force([nrows |-> A.nrows, ncols |-> A.ncols,
     e |-> [i \in Rows(A) |-> [c \in Cols(A) |-> CSub(A.e[i][c], B.e[i][c])]]])

\* the square matrix A read as BlockStructure::UnitTriangularLower
UnitLower(A) ==
    Force([nrows |-> A.nrows, ncols |-> A.ncols,
     e |-> [i \in Rows(A) |-> [c \in Cols(A) |->
              IF i = c THEN COne ELSE IF i > c THEN A.e[i][c] ELSE CZero]]])

(***************************************************************************)
(* Triangular solves (linalg::triangular_solve), in place on every column  *)
(* of rhs.  Only the named triangle of tri is read.                        *)
(***************************************************************************)
\* entry i of the solution: (b[i] - s) / tri[i][i], s the sum over the
\* entries already solved
SolvedEntry(tri, cj, b, i, s) == mul(CSub(b[i], s), recip(ConjIf(cj, tri.e[i][i])))

RECURSIVE ForwardSubst(_, _, _, _, _)
ForwardSubst(tri, cj, b, i, x) ==
    IF x = x /\ i < tri.nrows
    THEN ForwardSubst(tri, cj, b, i + 1,
             [k \in 0..i |->
                IF k = i
                THEN SolvedEntry(tri, cj, b, i,
                         Force(CSum([m \in 0..(i - 1) |-> mul(ConjIf(cj, tri.e[i][m]), x[m])], 0, i)))
                ELSE x[k]])
    ELSE x

RECURSIVE BackSubst(_, _, _, _, _)
BackSubst(tri, cj, b, i, x) ==
    IF x = x /\ i >= 0
    THEN BackSubst(tri, cj, b, i - 1,
             [k \in Rows(tri) |->
                IF k = i
                THEN SolvedEntry(tri, cj, b, i,
                         Force(CSum([m \in Rows(tri) |->
                                       IF m > i THEN mul(ConjIf(cj, tri.e[i][m]), x[m]) ELSE CZero],
                                    0, tri.nrows)))
                ELSE IF k > i THEN x[k] ELSE CZero])
    ELSE x

\* rhs rebuilt from its solved columns
FromColumns(rhs, cols) ==
    IF cols # cols THEN rhs
    ELSE Force([nrows |-> rhs.nrows, ncols |-> rhs.ncols,
           e |-> [i \in Rows(rhs) |-> [c \in Cols(rhs) |-> cols[c][i]]]])

solve_lower_triangular_in_place_with_conj(tri, cj, rhs) ==
    FromColumns(rhs, [c \in Cols(rhs) |->
                        ForwardSubst(tri, cj, Force([i \in Rows(rhs) |-> rhs.e[i][c]]), 0, <<>>)])

solve_upper_triangular_in_place_with_conj(tri, cj, rhs) ==
    FromColumns(rhs, [c \in Cols(rhs) |->
                        BackSubst(tri, cj, Force([i \in Rows(rhs) |-> rhs.e[i][c]]), tri.nrows - 1,
                                  Force([i \in Rows(rhs) |-> CZero]))])

(***************************************************************************)
(* Single-block application                                                *)
(***************************************************************************)
\* the element type of the model is complex (c64)
IS_REAL == FALSE

\* The rank-1 kernel ApplyOnLeft::with_simd: essential is column 0 of the
\* basis below the head row, rhs0 the head row of the operand, rhs the rest.
\* dot = rhs0[c] + essential^H rhs[.., c] for operand column c
ApplyOnLeftDot(CONJ, householder_basis, mat, c) ==
    CAdd(mat.e[0][c],
         CSum([i \in Rows(mat) |->
                 IF i = 0 THEN CZero
                 ELSE mul(ConjIf(~CONJ, householder_basis.e[i][0]), mat.e[i][c])], 0, mat.nrows))

\* rhs0 += k and rhs += essential * k, with k = -dot * tau_inv per column
ApplyOnLeftUpdate(CONJ, householder_basis, mat, k) ==
    IF k = k
    THEN Force([nrows |-> mat.nrows, ncols |-> mat.ncols,
                e |-> [i \in Rows(mat) |-> [c \in Cols(mat) |->
                         IF i = 0 THEN CAdd(mat.e[0][c], k[c])
                         ELSE CAdd(mul(ConjIf(CONJ, householder_basis.e[i][0]), k[c]), mat.e[i][c])]]])
    ELSE mat

ApplyOnLeft(CONJ, tau_inv, householder_basis, mat) ==
    IF mat.nrows - 1 = 0 THEN mat
    ELSE ApplyOnLeftUpdate(CONJ, householder_basis, mat,
             [c \in Cols(mat) |->
                mul(CNeg(ApplyOnLeftDot(CONJ, householder_basis, mat, c)), tau_inv)])

\* The closure func of the general path, on the operand columns it is given.
\* essentials* x mat
GeneralTmp(essentials_top, essentials_bot, top, bot, conj_lhs) ==
    IF essentials_top = essentials_top /\ essentials_bot = essentials_bot /\ top = top /\ bot = bot
    THEN MatAdd(MatMul(Conjugate(Transpose(UnitLower(essentials_top)), compose(TRUE, conj_lhs)), top),
                MatMul(Conjugate(Transpose(essentials_bot), compose(TRUE, conj_lhs)), bot))
    ELSE top

\* [T^-1|T^-*] x essentials* x tmp
GeneralSolve(householder_factor, conj_lhs, forward, tmp) ==
    IF forward
    THEN solve_lower_triangular_in_place_with_conj(
             Transpose(householder_factor), compose(TRUE, conj_lhs), tmp)
    ELSE solve_upper_triangular_in_place_with_conj(
             householder_factor, compose(FALSE, conj_lhs), tmp)

\* essentials x [T^-1|T^-*] x essentials* x tmp, subtracted from the top and
\* the bottom rows of the operand
GeneralUpdate(mat, essentials_top, essentials_bot, top, bot, conj_lhs, tmp) ==
    IF tmp = tmp
    THEN WriteBack(
             WriteBack(mat, 0, 0,
                 MatSub(top, MatMul(Conjugate(UnitLower(essentials_top), compose(FALSE, conj_lhs)), tmp))),
             essentials_top.nrows, 0,
             MatSub(bot, MatMul(Conjugate(essentials_bot, compose(FALSE, conj_lhs)), tmp)))
    ELSE mat

\* the three steps on the split basis and the split operand
GeneralOnViews(householder_factor, conj_lhs, mat, forward, essentials_top, essentials_bot, top, bot) ==
    GeneralUpdate(mat, essentials_top, essentials_bot, top, bot, conj_lhs,
        GeneralSolve(householder_factor, conj_lhs, forward,
            Force(GeneralTmp(essentials_top, essentials_bot, top, bot, conj_lhs))))

GeneralFunc(householder_basis, householder_factor, conj_lhs, mat, forward) ==
    GeneralOnViews(householder_factor, conj_lhs, mat, forward,
        submatrix_range(householder_basis, 0, householder_basis.ncols, 0, householder_basis.ncols),
        submatrix_range(householder_basis, householder_basis.ncols, householder_basis.nrows,
                        0, householder_basis.ncols),
        submatrix_range(mat, 0, householder_basis.ncols, 0, mat.ncols),
        submatrix_range(mat, householder_basis.ncols, householder_basis.nrows, 0, mat.ncols))

\* The outcome of a call: ok = FALSE is an assertion abort, the operand as left.
Outcome(ok, mat) == [ok |-> ok, matrix |-> mat]

\* mutant: the assertion without its squareness conjunct
GenericShapesOkNoSquare(householder_basis, householder_factor, mat) ==
    /\ householder_basis.ncols = householder_factor.nrows
    /\ mat.nrows = householder_basis.nrows

\* the assert!(all(..)) that opens the generic application; the as_shape
\* conversions of the public wrappers assert the same three equalities
GenericShapesOk(householder_basis, householder_factor, mat) ==
    /\ householder_factor.nrows = householder_factor.ncols
    /\ householder_basis.ncols = householder_factor.nrows
    /\ mat.nrows = householder_basis.nrows

\* simd: T::SIMD_CAPABILITIES.is_simd(); contiguous: both try_as_col_major
\* conversions (basis and operand) succeed.
apply_block_householder_on_the_left_in_place_generic(householder_basis, householder_factor, conj_lhs, mat, forward, simd, contiguous) ==
    IF ~GenericShapesOk(householder_basis, householder_factor, mat)
    THEN Outcome(FALSE, mat)
    ELSE IF householder_basis.ncols > householder_basis.nrows
    THEN Outcome(FALSE, mat)
    ELSE IF contiguous /\ householder_basis.ncols = 1 /\ simd
    THEN Outcome(TRUE, ApplyOnLeft(~(IS_REAL \/ ~conj_lhs),
                                   from_real(RRecip(real(householder_factor.e[0][0]))),
                                   householder_basis, mat))
    ELSE Outcome(TRUE, GeneralFunc(householder_basis, householder_factor,
                                   conj_lhs, mat, forward))

apply_block_householder_on_the_left_in_place_with_conj(householder_basis, householder_factor, conj_lhs, mat, simd, contiguous) ==
    apply_block_householder_on_the_left_in_place_generic(
        householder_basis, householder_factor, conj_lhs, mat, FALSE, simd, contiguous)

apply_block_householder_transpose_on_the_left_in_place_with_conj(householder_basis, householder_factor, conj_lhs, mat, simd, contiguous) ==
    apply_block_householder_on_the_left_in_place_generic(
        householder_basis, householder_factor, compose(conj_lhs, TRUE), mat, TRUE,
        simd, contiguous)

(***************************************************************************)
(* Inputs of the Householder application runs                              *)
(***************************************************************************)
MaxM == 3    \* most rows of a basis
MaxB == 2    \* most rows of a factor (the block size of a sequence)

\* complex entries for bases and operands, and for the factor off its diagonal
Pal == <<Cx(1, 0), Cx(0, 1), Cx(1, 1), Cx(-1, 0), Cx(2, -1), Cx(0, -2), Cx(1, 2)>>

\* real entries for the diagonal of a factor (each tau is real)
TauPal == <<from_real(<<1, 1>>), from_real(<<1, 2>>), from_real(<<-1, 1>>)>>

Fill(m, n, seed) ==
    [nrows |-> m, ncols |-> n,
     e |-> [i \in 0..(m - 1) |-> [c \in 0..(n - 1) |-> Pal[((3 * i + 5 * c + seed) % 7) + 1]]]]

FillFactor(b, n, seed) ==
    [nrows |-> b, ncols |-> n,
     e |-> [i \in 0..(b - 1) |-> [c \in 0..(n - 1) |->
              IF c % b = i THEN TauPal[((c + seed) % 3) + 1]
              ELSE Pal[((2 * i + 3 * c + seed) % 7) + 1]]]]

\* [simd]: T::SIMD_CAPABILITIES.is_simd(); [basis_colmajor]: the basis has row
\* stride 1; [matrix_layout]: the operand buffer is column- or row-major.
Envs ==
    { [simd |-> TRUE, basis_colmajor |-> TRUE, matrix_layout |-> "col"],
      [simd |-> TRUE, basis_colmajor |-> TRUE, matrix_layout |-> "row"],
      [simd |-> FALSE, basis_colmajor |-> TRUE, matrix_layout |-> "col"] }

SeqEntries == {"sequence_left", "sequence_transpose_left", "sequence_right", "sequence_transpose_right"}

\* the operand of a right-side entry point is K x M and is passed on as matrix.transpose_mut()
IsRight(entry) == entry \in {"sequence_right", "sequence_transpose_right", "right", "transpose_right"}

OperandCols == {2}

SeqShapes == {s \in (1..MaxM) \X (0..MaxM) \X (1..MaxB) : s[2] <= s[1]}

BlockEntries == {"left", "transpose_left", "right", "transpose_right"}

BlockShapes == {s \in (1..MaxM) \X (0..MaxM) : s[2] <= s[1]}

\* a single-block call whose factor is (N + d[1]) x (N + d[2]) and whose operand
\* has M + d[3] rows in the view the left-side code sees; d = <<0, 0, 0>> conforms
BlockScenario(en, s, d, cj, k, env) ==
    [entry |-> en,
     householder_basis |-> Fill(s[1], s[2], 0),
     householder_factor |-> FillFactor(s[2] + d[1], s[2] + d[2], 1),
     conj |-> cj,
     matrix |-> IF IsRight(en) THEN Fill(k, s[1] + d[3], 2) ELSE Fill(s[1] + d[3], k, 2),
     env |-> env]

Mismatches == ((0..1) \X (0..1) \X (0..1)) \ {<<0, 0, 0>>}

BlockScenarios ==
    { BlockScenario(en, s, <<0, 0, 0>>, cj, k, env) :
      en \in BlockEntries, s \in BlockShapes, cj \in BOOLEAN, k \in OperandCols, env \in Envs }
    \cup
    { BlockScenario(en, s, d, FALSE, k, CHOOSE env \in Envs : env.simd /\ env.matrix_layout = "col") :
      en \in BlockEntries, s \in BlockShapes, d \in Mismatches, k \in OperandCols }

SeqScenarios ==
    { [entry |-> en,
       householder_basis |-> Fill(s[1], s[2], 0),
       householder_factor |-> FillFactor(s[3], s[2], 1),
       conj |-> cj,
       matrix |-> IF IsRight(en) THEN Fill(k, s[1], 2) ELSE Fill(s[1], k, 2),
       env |-> env] :
      en \in SeqEntries, s \in SeqShapes, cj \in BOOLEAN, k \in OperandCols, env \in Envs }

(***************************************************************************)
(* Sequence drivers                                                        *)
(***************************************************************************)
\* mutant: the right-side sequence entry points run the driver of their own name
DriverOfSameName(entry) ==
    IF entry \in {"sequence_left", "sequence_right"} THEN "forward" ELSE "transpose"

\* mutant: the two left-side drivers exchanged
DriverOfSwapped(entry) ==
    IF entry \in {"sequence_left", "sequence_transpose_right"} THEN "transpose" ELSE "forward"

\* which left-side driver an entry point runs (the right-side ones forward
\* to the other driver on the transposed operand)
DriverOf(entry) ==
    CASE entry = "sequence_left" -> "forward"
      [] entry = "sequence_transpose_left" -> "transpose"
      [] entry = "sequence_right" -> "transpose"
      [] entry = "sequence_transpose_right" -> "forward"

\* whether a single-block entry point ends in the transpose application
\* (forward = true in the generic function)
TransposeOf(entry) ==
    CASE entry = "left" -> FALSE
      [] entry = "transpose_left" -> TRUE
      [] entry = "right" -> TRUE
      [] entry = "transpose_right" -> FALSE

\* the operand as the driver sees it
View(entry, mat) == IF IsRight(entry) THEN Transpose(mat) ELSE mat

\* the caller's buffer after the driver wrote v through its view
Store(entry, v) == IF IsRight(entry) THEN Transpose(v) ELSE v

Contiguous(entry, env) ==
    /\ env.basis_colmajor
    /\ env.matrix_layout = (IF IsRight(entry) THEN "row" ELSE "col")

\* forward driver: the cursor and the first block width at loop entry
ForwardStart(size) == size

\* mutant: the first block of the forward driver is a full block
ForwardFirstBlocksizeFull(size, B) == B

ForwardFirstBlocksize(size, B) == IF size % B = 0 THEN B ELSE size % B

\* mutant: the forward driver steps back by one column
ForwardPrevOneColumn(jj, bs) == jj - 1

ForwardPrev(jj, bs) == jj - bs

\* transpose driver: size.advance(j, blocksize)
advance(size, jj, bs) == IF jj + bs < size THEN jj + bs ELSE size

\* the views one loop iteration of a driver cuts for the block [c0, c1)
BlockBasis(householder_basis, c0, c1) ==
    submatrix_range(householder_basis, c0, householder_basis.nrows, c0, c1)

\* mutant: every block reads the leading columns of the factor
BlockFactorLeading(householder_factor, c0, c1) ==
    submatrix_range(householder_factor, 0, c1 - c0, 0, c1 - c0)

BlockFactor(householder_factor, c0, c1) ==
    submatrix_range(householder_factor, 0, c1 - c0, c0, c1)

BlockOperand(v, c0) == submatrix_range(v, c0, v.nrows, 0, v.ncols)

\* the single-block application a driver or a right-side entry point calls
LeftCall(transpose, essentials, householder, sub) ==
    IF transpose
    THEN apply_block_householder_transpose_on_the_left_in_place_with_conj(
             essentials, householder, arg.conj, sub, arg.env.simd, Contiguous(arg.entry, arg.env))
    ELSE apply_block_householder_on_the_left_in_place_with_conj(
             essentials, householder, arg.conj, sub, arg.env.simd, Contiguous(arg.entry, arg.env))

\* one loop iteration: the single-block call on block [c0, c1)
BlockCall(transpose, c0, c1, v) ==
    LeftCall(transpose, BlockBasis(arg.householder_basis, c0, c1),
             BlockFactor(arg.householder_factor, c0, c1), BlockOperand(v, c0))

ApplyIdle == /\ ld = Null /\ w = Null /\ alpha = Null /\ head = Null /\ tail = Null

InitApply ==
    /\ \E sc \in SeqScenarios \cup BlockScenarios : arg = sc /\ matrix = sc.matrix
    /\ pc = "call"
    /\ j = 0
    /\ blocksize = 0
    /\ applied = <<>>
    /\ ret = Null
    /\ ApplyIdle

\* entry into imp: assert!(householder_factor.nrows() > 0) and the loop setup
SeqCall ==
    /\ pc = "call"
    /\ arg.entry \in SeqEntries
    /\ LET B == arg.householder_factor.nrows
           size == arg.householder_factor.ncols
       IN  IF B = 0
           THEN /\ pc' = "panic"
                /\ UNCHANGED <<j, blocksize>>
           ELSE IF DriverOf(arg.entry) = "forward"
           THEN /\ pc' = "forward"
                /\ j' = ForwardStart(size)
                /\ blocksize' = ForwardFirstBlocksize(size, B)
           ELSE /\ pc' = "transpose"
                /\ j' = 0
                /\ blocksize' = B
    /\ UNCHANGED <<arg, matrix, applied, ld, w, alpha, head, tail, ret>>

\* one iteration of `while *j > 0` of the forward driver
SeqForwardStep ==
    /\ pc = "forward"
    /\ j > 0
    /\ LET j_prev == ForwardPrev(j, blocksize)
           v == View(arg.entry, matrix)
       IN  IF j_prev < 0 \/ j_prev > arg.householder_basis.nrows
           THEN /\ pc' = "panic"
                /\ UNCHANGED <<matrix, j, blocksize, applied>>
           ELSE \E out \in {BlockCall(FALSE, j_prev, j, v)} :
                    /\ v = v /\ out = out
                    /\ matrix' = Store(arg.entry, WriteBack(v, j_prev, 0, out.matrix))
                    /\ applied' = Append(applied, [c |-> j_prev, width |-> j - j_prev, transpose |-> FALSE])
                    /\ blocksize' = arg.householder_factor.nrows
                    /\ IF out.ok
                       THEN pc' = pc /\ j' = j_prev
                       ELSE pc' = "panic" /\ j' = j
    /\ UNCHANGED <<arg, ld, w, alpha, head, tail, ret>>

\* one iteration of `while let Some(j) = size.try_check(*J)` of the transpose driver
SeqTransposeStep ==
    /\ pc = "transpose"
    /\ j < arg.householder_factor.ncols
    /\ LET j_next == advance(arg.householder_factor.ncols, j, blocksize)
           v == View(arg.entry, matrix)
       IN  IF j > arg.householder_basis.nrows
           THEN /\ pc' = "panic"
                /\ UNCHANGED <<matrix, j, applied>>
           ELSE \E out \in {BlockCall(TRUE, j, j_next, v)} :
                    /\ v = v /\ out = out
                    /\ matrix' = Store(arg.entry, WriteBack(v, j, 0, out.matrix))
                    /\ applied' = Append(applied, [c |-> j, width |-> j_next - j, transpose |-> TRUE])
                    /\ IF out.ok
                       THEN pc' = pc /\ j' = j_next
                       ELSE pc' = "panic" /\ j' = j
    /\ UNCHANGED <<arg, blocksize, ld, w, alpha, head, tail, ret>>

\* the loop condition fails: the driver returns
SeqReturn ==
    /\ \/ pc = "forward" /\ j = 0
       \/ pc = "transpose" /\ j >= arg.householder_factor.ncols
    /\ pc' = "done"
    /\ UNCHANGED <<arg, matrix, j, blocksize, applied, ld, w, alpha, head, tail, ret>>

\* a single-block entry point, from call to return or abort
BlockApply ==
    /\ pc = "call"
    /\ arg.entry \in BlockEntries
    /\ \E out \in {LeftCall(TransposeOf(arg.entry), arg.householder_basis,
                            arg.householder_factor, Force(View(arg.entry, matrix)))} :
           /\ out = out
           /\ matrix' = Store(arg.entry, out.matrix)
           /\ applied' = Append(applied, [c |-> 0, width |-> arg.householder_basis.ncols,
                                         transpose |-> TransposeOf(arg.entry)])
           /\ pc' = IF out.ok THEN "done" ELSE "panic"
    /\ UNCHANGED <<arg, j, blocksize, ld, w, alpha, head, tail, ret>>

NextApply == SeqCall \/ SeqForwardStep \/ SeqTransposeStep \/ SeqReturn \/ BlockApply

SpecApply == InitApply /\ [][NextApply]_vars

(***************************************************************************)
(* Householder application: properties                                     *)
(***************************************************************************)
\* the reflector count and the factor's row count of the call
NumReflectors == arg.householder_factor.ncols

FactorRows == arg.householder_factor.nrows

\* the applications that cover reflector column n
Covering(n) == {i \in 1..Len(applied) : applied[i].c <= n /\ n < applied[i].c + applied[i].width}

\* the blocks applied so far, as a set
AppliedBlocks == {applied[i] : i \in 1..Len(applied)}

\* The single-block left application on the block [c, c + wd), with the views
\* written out: basis rows [c, M) x columns [c, c + wd), the leading wd x wd
\* part of factor columns [c, c + wd), operand rows [c, M).
SingleBlockLeft(c, wd, v) ==
    LET out == apply_block_householder_on_the_left_in_place_with_conj(
                   submatrix_range(arg.householder_basis, c, arg.householder_basis.nrows, c, c + wd),
                   submatrix_range(arg.householder_factor, 0, wd, c, c + wd),
                   arg.conj,
                   submatrix_range(v, c, v.nrows, 0, v.ncols),
                   arg.env.simd, Contiguous(arg.entry, arg.env))
    IN  IF out = out THEN WriteBack(v, c, 0, out.matrix) ELSE v

\* the blocks of S applied one by one through SingleBlockLeft, highest column offset first
RECURSIVE ReverseOrder(_, _)
ReverseOrder(S, v) ==
    IF S = {} THEN v
    ELSE LET b == CHOOSE x \in S : \A y \in S : y.c <= x.c
             nv == SingleBlockLeft(b.c, b.width, v)
         IN  IF nv = nv THEN ReverseOrder(S \ {b}, nv) ELSE v

\* The left-side sequence drivers as functions of the operand: the loops of
\* the two imp functions run to their end.
RECURSIVE ForwardRun(_, _, _)
ForwardRun(jj, bs, v) ==
    IF jj <= 0 THEN v
    ELSE LET j_prev == ForwardPrev(jj, bs)
             out == BlockCall(FALSE, j_prev, jj, v)
             nv == WriteBack(v, j_prev, 0, out.matrix)
         IN  IF out = out /\ nv = nv
             THEN ForwardRun(j_prev, arg.householder_factor.nrows, nv)
             ELSE v

RECURSIVE TransposeRun(_, _)
TransposeRun(jj, v) ==
    IF jj >= arg.householder_factor.ncols THEN v
    ELSE LET j_next == advance(arg.householder_factor.ncols, jj, arg.householder_factor.nrows)
             out == BlockCall(TRUE, jj, j_next, v)
             nv == WriteBack(v, jj, 0, out.matrix)
         IN  IF out = out /\ nv = nv THEN TransposeRun(j_next, nv) ELSE v

sequence_on_the_left(v) ==
    ForwardRun(ForwardStart(arg.householder_factor.ncols),
               ForwardFirstBlocksize(arg.householder_factor.ncols, arg.householder_factor.nrows), v)

sequence_transpose_on_the_left(v) == TransposeRun(0, v)

\* C1: the forward left sequence driver applies the blocks in strictly
\* decreasing column-offset order, starting with the block that ends at the
\* last reflector column and ending with the block at offset 0; the transpose
\* left driver applies them in strictly increasing order, starting at offset 0;
\* when either driver returns, every reflector column lies in exactly one
\* applied block.
C1_BlockOrder ==
    arg.entry \in {"sequence_left", "sequence_transpose_left"} =>
        /\ \A i \in 1..(Len(applied) - 1) :
              IF arg.entry = "sequence_left"
              THEN applied[i + 1].c < applied[i].c
              ELSE applied[i + 1].c > applied[i].c
        /\ \A i \in 1..Len(applied) : applied[i].transpose = (arg.entry = "sequence_transpose_left")
        /\ Len(applied) > 0 =>
              IF arg.entry = "sequence_left"
              THEN applied[1].c + applied[1].width = NumReflectors
              ELSE applied[1].c = 0
        /\ pc = "done" =>
              /\ \A n \in 0..(NumReflectors - 1) : Cardinality(Covering(n)) = 1
              /\ Len(applied) > 0 =>
                    IF arg.entry = "sequence_left"
                    THEN applied[Len(applied)].c = 0
                    ELSE applied[Len(applied)].c + applied[Len(applied)].width = NumReflectors

C1_Witness ==
    /\ pc = "done"
    /\ arg.entry = "sequence_left"
    /\ Len(applied) = 2
    /\ applied[1].c > 0
    /\ applied[2].c = 0

\* C2: at every point of the forward left sequence driver the operand is what
\* the single-block left application, called once per block applied so far in
\* decreasing column-offset order with the block's views, leaves; operand rows
\* above the lowest block applied so far still hold their initial entries.
C2_ForwardIsReverseFold ==
    (arg.entry = "sequence_left" /\ pc \in {"forward", "done"}) =>
        /\ matrix = ReverseOrder(AppliedBlocks, arg.matrix)
        /\ \A b \in AppliedBlocks :
              (\A y \in AppliedBlocks : b.c <= y.c) =>
                  \A i \in 0..(b.c - 1) : matrix.e[i] = arg.matrix.e[i]

C2_Witness ==
    /\ pc = "done"
    /\ arg.entry = "sequence_left"
    /\ Len(applied) = 2
    /\ applied[1].width < applied[2].width
    /\ matrix # arg.matrix

\* C3 as stated: every block other than the block at column offset 0 has
\* exactly B columns.
C3_Original ==
    arg.entry \in SeqEntries =>
        \A i \in 1..Len(applied) : applied[i].c # 0 => applied[i].width = FactorRows

\* C3: every block starts at a multiple of B and has exactly B columns, except
\* possibly the block that ends at the last reflector column (the block at the
\* highest column offset), which has between 1 and B columns; when the driver
\* returns the block widths sum to N.
C3_BlockWidths ==
    arg.entry \in SeqEntries =>
        /\ \A i \in 1..Len(applied) :
              /\ applied[i].c % FactorRows = 0
              /\ applied[i].width >= 1
              /\ applied[i].width <= FactorRows
              /\ applied[i].c + applied[i].width # NumReflectors => applied[i].width = FactorRows
              /\ applied[i].c + applied[i].width <= NumReflectors
        /\ pc = "done" => \A n \in 0..(NumReflectors - 1) : Cardinality(Covering(n)) = 1

C3_Witness ==
    /\ pc = "done"
    /\ arg.entry = "sequence_left"
    /\ Len(applied) = 2
    /\ applied[1].c = FactorRows
    /\ applied[1].width < FactorRows
    /\ applied[2].c = 0
    /\ applied[2].width = FactorRows

\* C4: a right-side entry point leaves in the caller's buffer the transpose of
\* what the matching left-side operation leaves when run on the buffer's
\* transpose: right-forward matches left-transpose, right-transpose matches
\* left-forward, for the single-block calls and for the sequences; the
\* right-side sequence visits the blocks in increasing column-offset order and
\* the right-side transposed sequence in decreasing order.
C4_RightIsLeftOnTranspose ==
    /\ (arg.entry = "right" /\ pc = "done") =>
          matrix = Transpose(apply_block_householder_transpose_on_the_left_in_place_with_conj(
                                 arg.householder_basis, arg.householder_factor, arg.conj,
                                 Transpose(arg.matrix), arg.env.simd,
                                 Contiguous(arg.entry, arg.env)).matrix)
    /\ (arg.entry = "transpose_right" /\ pc = "done") =>
          matrix = Transpose(apply_block_householder_on_the_left_in_place_with_conj(
                                 arg.householder_basis, arg.householder_factor, arg.conj,
                                 Transpose(arg.matrix), arg.env.simd,
                                 Contiguous(arg.entry, arg.env)).matrix)
    /\ (arg.entry = "sequence_right" /\ pc = "done") =>
          matrix = Transpose(sequence_transpose_on_the_left(Transpose(arg.matrix)))
    /\ (arg.entry = "sequence_transpose_right" /\ pc = "done") =>
          matrix = Transpose(sequence_on_the_left(Transpose(arg.matrix)))
    /\ arg.entry = "sequence_right" =>
          /\ \A i \in 1..(Len(applied) - 1) : applied[i + 1].c > applied[i].c
          /\ \A i \in 1..Len(applied) : applied[i].transpose
          /\ Len(applied) > 0 => applied[1].c = 0
    /\ arg.entry = "sequence_transpose_right" =>
          /\ \A i \in 1..(Len(applied) - 1) : applied[i + 1].c < applied[i].c
          /\ \A i \in 1..Len(applied) : ~applied[i].transpose
          /\ Len(applied) > 0 => applied[1].c + applied[1].width = NumReflectors
    /\ (arg.entry \in {"right", "transpose_right"} /\ pc = "done") =>
          applied[1].transpose = (arg.entry = "right")

C4_Witness ==
    /\ pc = "done"
    /\ arg.entry = "sequence_right"
    /\ Len(applied) = 2
    /\ applied[1].c = 0
    /\ matrix # arg.matrix

\* the three shape conditions of a single-block call, on the operand as the
\* left-side code sees it
ShapeMismatch ==
    \/ arg.householder_factor.nrows # arg.householder_factor.ncols
    \/ arg.householder_basis.ncols # arg.householder_factor.nrows
    \/ View(arg.entry, arg.matrix).nrows # arg.householder_basis.nrows

\* C5: a single-block application whose factor is not square, whose basis
\* column count differs from the factor row count, or whose operand row count
\* differs from the basis row count ends in the assertion abort, and the
\* operand holds its initial entries.
C5_ShapeAbort ==
    (arg.entry \in BlockEntries /\ ShapeMismatch /\ pc # "call") =>
        (pc = "panic" /\ matrix = arg.matrix)

C5_Witness ==
    /\ pc = "panic"
    /\ arg.entry = "left"
    /\ arg.householder_factor.nrows # arg.householder_factor.ncols
    /\ arg.householder_basis.ncols = arg.householder_factor.nrows
    /\ arg.matrix.nrows = arg.householder_basis.nrows
    /\ matrix = arg.matrix

(***************************************************************************)
(* LDLT rank update (cholesky/ldlt/update.rs)                              *)
(***************************************************************************)
BLOCKSIZE == 4

Min(a, b) == IF a < b THEN a ELSE b

\* mutant: the pivot is stored as its absolute value
StoreDAbs(new_d) == from_real(RAbs(new_d))

\* *d = from_real(new_d)
StoreD(new_d) == from_real(new_d)

\* mutant: the scaling is left as it was
NextAlphaKept(a, new_d, beta) == a

\* *alpha = from_real(real(*alpha) - new_d * abs2(*beta))
NextAlpha(a, new_d, beta) == from_real(RSub(real(a), RMul(new_d, abs2(beta))))

\* mutant: the remaining-rank function is ignored
ActiveRankAll(rv, k) == k

\* let r = Ord::min(r(), k)
ActiveRank(rv, k) == Min(rv, k)

\* The state the loops of run work on: the three operands, the stack vectors
\* p and beta of the current sub-block, its first column r and width bs, the
\* pivots computed so far, and whether an assertion or index check has failed.
RunState(ld_, w_, alpha_, log) ==
    [ld |-> ld_, w |-> w_, alpha |-> alpha_, p |-> <<>>, beta |-> <<>>,
     sub |-> [r |-> 0, bs |-> 0], blocks |-> <<>>, log |-> log, ok |-> TRUE]

\* the stack vectors of a new sub-block of bs columns that starts at column r0
EnterSubBlock(st, r0, bs) ==
    [st EXCEPT !.p = <<>>, !.beta = <<>>, !.sub = [r |-> r0, bs |-> bs]]

\* mutant: the product is subtracted from the pivot
NewDMinus(d, alpha_conj_p, p0) == RSub(real(d), real(mul(alpha_conj_p, p0)))

\* let new_d = real(*d) + real(mul(alpha_conj_p, *p))
NewD(d, alpha_conj_p, p0) == RAdd(real(d), real(mul(alpha_conj_p, p0)))

\* *beta = mul_real(alpha_conj_p, recip(new_d)) has been computed: store
\* alpha, d, -p and beta, and log the pivot
PivotStore(st, jj, idx, p0, new_d, beta0) ==
    IF beta0 = beta0
    THEN [ld |-> [st.ld EXCEPT !.e[jj][jj] = StoreD(new_d)],
          w |-> st.w,
          alpha |-> [st.alpha EXCEPT ![idx + 1] = NextAlpha(st.alpha[idx + 1], new_d, beta0)],
          p |-> Append(st.p, CNeg(p0)),
          beta |-> Append(st.beta, beta0),
          sub |-> st.sub,
          blocks |-> st.blocks,
          log |-> Append(st.log,
                    [col |-> jj, k |-> idx, new_d |-> new_d, d |-> real(st.ld.e[jj][jj]),
                     p |-> p0, beta |-> beta0,
                     alpha |-> NextAlpha(st.alpha[idx + 1], new_d, beta0),
                     r |-> st.sub.r, bs |-> st.sub.bs]),
          ok |-> TRUE]
    ELSE st

\* new_d = real(*d) + real(alpha_conj_p * *p) has been computed
PivotBeta(st, jj, idx, p0, alpha_conj_p, new_d) ==
    IF new_d = new_d
    THEN PivotStore(st, jj, idx, p0, new_d, mul_real(alpha_conj_p, RRecip(new_d)))
    ELSE st

\* alpha_conj_p = *alpha * conj(*p) has been computed, p = w[j, idx]
PivotNewD(st, jj, idx, p0, alpha_conj_p) ==
    IF alpha_conj_p = alpha_conj_p
    THEN PivotBeta(st, jj, idx, p0, alpha_conj_p, NewD(st.ld.e[jj][jj], alpha_conj_p, p0))
    ELSE st

\* `for k in 0..bs` of run: the pivot, beta and alpha of each column of the sub-block
RECURSIVE PivotLoop(_, _, _, _, _)
PivotLoop(st, jj, r0, bs, kk) ==
    IF st # st \/ kk >= bs THEN st
    ELSE IF jj >= st.ld.nrows THEN [st EXCEPT !.ok = FALSE]
    ELSE PivotLoop(PivotNewD(st, jj, r0 + kk, st.w.e[jj][r0 + kk],
                             mul(st.alpha[r0 + kk + 1], conj(st.w.e[jj][r0 + kk]))),
                   jj, r0, bs, kk + 1)

\* w_c = p_c * l + w_c
RowW(l, ws, p, c) == CAdd(mul(p[c], l), ws[c])

\* one row of a kernel: w_c = p_c * l + w_c; l = beta_c * w_c + l, for c in order
RECURSIVE RowChain(_, _, _, _, _)
RowChain(l, ws, p, beta, c) ==
    IF l = l /\ ws = ws /\ c <= Len(p)
    THEN RowChain(CAdd(mul(beta[c], RowW(l, ws, p, c)), l),
                  [ws EXCEPT ![c] = RowW(l, ws, p, c)], p, beta, c + 1)
    ELSE [l |-> l, w |-> ws]

\* column jj of ld and columns [r0, r0 + bs) of w overwritten by the rows upd
KernelStore(st, jj, r0, bs, upd) ==
    IF upd # upd THEN st
    ELSE [st EXCEPT
            !.ld = Force([nrows |-> st.ld.nrows, ncols |-> st.ld.ncols,
                          e |-> [i \in Rows(st.ld) |-> [c \in Cols(st.ld) |->
                                   IF c = jj /\ i \in DOMAIN upd THEN upd[i].l
                                   ELSE st.ld.e[i][c]]]]),
            !.w = Force([nrows |-> st.w.nrows, ncols |-> st.w.ncols,
                         e |-> [i \in Rows(st.w) |-> [c \in Cols(st.w) |->
                                  IF i \in DOMAIN upd /\ c >= r0 /\ c < r0 + bs
                                  THEN upd[i].w[c - r0 + 1]
                                  ELSE st.w.e[i][c]]]])]

\* `match (i0, i1, i2, i3)` has an arm for one, two, three and four Some
KERNEL_ARMS == 4

\* the number of Some among the first four column indices of a W of r
\* columns; 0 selects `_ => panic!()`
Arm(r) == Min(r, KERNEL_ARMS)

\* mutant: the columns of a sub-block all read the l the row started with
FallbackRowStale(l, ws, p, beta, arm) ==
    [l |-> RowChain(l, ws, SubSeq(p, 1, arm), beta, 1).l,
     w |-> [c \in 1..Len(ws) |-> IF c <= arm THEN RowW(l, ws, p, c) ELSE ws[c]]]

\* the body of `for i in 0..n` in the arm taken by the fallback kernel
FallbackRow(l, ws, p, beta, arm) == RowChain(l, ws, SubSeq(p, 1, arm), beta, 1)

\* mutant: every w is computed from the l that was read, not from the running one
SimdLaneNoCarry(l, ws, p, beta, arm) ==
    [l |-> RowChain(l, ws, SubSeq(p, 1, arm), beta, 1).l,
     w |-> [c \in 1..Len(ws) |-> IF c <= arm THEN RowW(l, ws, p, c) ELSE ws[c]]]

\* one lane of the macro simd! in the arm taken by the SIMD kernel
SimdLane(l, ws, p, beta, arm) == RowChain(l, ws, SubSeq(p, 1, arm), beta, 1)

\* mutant: the row of the pivot is given to the kernel as well
FallbackRowsFromPivot(st, jj, r0, bs, rows) ==
    KernelStore(st, jj, r0, bs,
        [i \in jj..(jj + rows) |->
           FallbackRow(st.ld.e[i][jj], [c \in 1..bs |-> st.w.e[i][r0 + c - 1]],
                       st.p, st.beta, Arm(bs))])

\* `for i in 0..n` of the fallback kernel over its first `rows` rows
FallbackRows(st, jj, r0, bs, rows) ==
    KernelStore(st, jj, r0, bs,
        [i \in (jj + 1)..(jj + rows) |->
           FallbackRow(st.ld.e[i][jj], [c \in 1..bs |-> st.w.e[i][r0 + c - 1]],
                       st.p, st.beta, Arm(bs))])

\* one use of simd!: a read, the chain and a write on the rows of one vector
SimdVector(st, jj, r0, bs, lanes) ==
    KernelStore(st, jj, r0, bs,
        [i \in lanes |->
           SimdLane(st.ld.e[i][jj], [c \in 1..bs |-> st.w.e[i][r0 + c - 1]],
                    st.p, st.beta, Arm(bs))])

LANES == 2    \* elements per SIMD vector

\* the rows before the first aligned vector of a slice of N rows that starts
\* at row `start` of its column
SimdHead(N, start) == Min(N, (LANES - (start % LANES)) % LANES)

\* SimdCtx::indices(): the head vector, the full vectors of the body and the
\* tail vector, each as the rows of the slice it covers
SimdIndices(N, start) ==
    (IF SimdHead(N, start) > 0 THEN <<0..(SimdHead(N, start) - 1)>> ELSE <<>>)
    \o [v \in 1..((N - SimdHead(N, start)) \div LANES) |->
           (SimdHead(N, start) + (v - 1) * LANES)..(SimdHead(N, start) + v * LANES - 1)]
    \o (IF (N - SimdHead(N, start)) % LANES > 0
        THEN <<(N - ((N - SimdHead(N, start)) % LANES))..(N - 1)>>
        ELSE <<>>)

\* head, body and tail of the SIMD kernel, one vector after the other
RECURSIVE SimdVectors(_, _, _, _, _, _)
SimdVectors(st, jj, r0, bs, groups, g) ==
    IF st # st \/ g > Len(groups) THEN st
    ELSE SimdVectors(SimdVector(st, jj, r0, bs, {jj + 1 + i : i \in groups[g]}),
                     jj, r0, bs, groups, g + 1)

\* rank_update_step_simd: as_row_shape_mut(N) asserts that L has as many rows
\* as W, then the match on the columns of W
rank_update_step_simd(st, jj, r0, bs) ==
    LET Lrows == st.ld.nrows - (jj + 1)
        Wrows == st.w.nrows - (jj + 1)
    IN  IF Lrows # Wrows THEN [st EXCEPT !.ok = FALSE]
        ELSE IF Arm(bs) = 0 THEN [st EXCEPT !.ok = FALSE]
        ELSE SimdVectors(st, jj, r0, bs, SimdIndices(Wrows, jj + 1), 1)

\* rank_update_step_fallback: the match on the columns of W, then
\* `for i in 0..n` over the rows of W, L[i] index-checked
rank_update_step_fallback(st, jj, r0, bs) ==
    LET Lrows == st.ld.nrows - (jj + 1)
        Wrows == st.w.nrows - (jj + 1)
    IN  IF Arm(bs) = 0 THEN [st EXCEPT !.ok = FALSE]
        ELSE IF Wrows > Lrows
        THEN [FallbackRows(st, jj, r0, bs, Lrows) EXCEPT !.ok = FALSE]
        ELSE FallbackRows(st, jj, r0, bs, Wrows)

\* the sub-block whose kernel is about to run, added to those of the column
KernelCalled(piv, r0, bs) ==
    [piv EXCEPT !.blocks = Append(piv.blocks, [r |-> r0, bs |-> bs, arm |-> Arm(bs)])]

\* the kernel dispatch that ends a sub-block, on the state piv the pivot loop left
KernelStep(piv, jj, r0, bs, simd, contiguous) ==
    IF ~piv.ok THEN piv
    ELSE IF simd /\ contiguous
    THEN rank_update_step_simd(KernelCalled(piv, r0, bs), jj, r0, bs)
    ELSE rank_update_step_fallback(KernelCalled(piv, r0, bs), jj, r0, bs)

\* mutant: every sub-block is one column wide
SubBlockWidthOne(R, r0) == 1

\* let bs = Ord::min(BLOCKSIZE, R - r)
SubBlockWidth(R, r0) == Min(BLOCKSIZE, R - r0)

\* `while r < R` of run: one sub-block of at most BLOCKSIZE columns of W at a time
RECURSIVE SubBlockLoop(_, _, _, _, _, _)
SubBlockLoop(st, jj, R, r0, simd, contiguous) ==
    IF st # st \/ r0 >= R \/ ~st.ok THEN st
    ELSE SubBlockLoop(
             KernelStep(PivotLoop(EnterSubBlock(st, r0, SubBlockWidth(R, r0)), jj, r0,
                                  SubBlockWidth(R, r0), 0),
                        jj, r0, SubBlockWidth(R, r0), simd, contiguous),
             jj, R, r0 + SubBlockWidth(R, r0), simd, contiguous)

\* the body of `for j in 0..n` of run, for column jj and the value rv of r()
ColumnStep(st, jj, rv, simd, contiguous) ==
    IF jj >= st.ld.ncols THEN [st EXCEPT !.ok = FALSE]
    ELSE LET R == ActiveRank(rv, st.w.ncols)
         IN  IF R > Len(st.alpha) THEN [st EXCEPT !.ok = FALSE]
             ELSE SubBlockLoop(st, jj, R, 0, simd, contiguous)

(***************************************************************************)
(* Inputs of the rank update runs                                          *)
(***************************************************************************)
MaxN == 2        \* largest dimension of a factorization
MaxK == 5        \* most columns of W
NumSeeds == 2    \* fillings tried per shape

\* the fillings, in the order they are tried
Seeds == <<0, 3, 4, 5, 1, 7, 9, 10>>

\* entries of L below the diagonal and of W
UpdPal == <<Cx(1, 0), Cx(0, 1), Cx(0, 0), Cx(-1, 0), Cx(1, 1), Cx(0, -1), Cx(1, -1)>>

\* the real diagonal D
DPal == <<from_real(<<1, 1>>), from_real(<<2, 1>>), from_real(<<-1, 1>>)>>

\* the real scalings alpha
AlphaPal == <<from_real(<<1, 1>>), from_real(<<-1, 1>>), from_real(<<2, 1>>), from_real(<<-1, 2>>)>>

FillLD(nr, nc, seed) ==
    [nrows |-> nr, ncols |-> nc,
     e |-> [i \in 0..(nr - 1) |-> [c \in 0..(nc - 1) |->
              IF i = c THEN DPal[((i + seed) % 3) + 1]
              ELSE UpdPal[((2 * i + 3 * c + seed) % 7) + 1]]]]

FillW(nr, nc, seed) ==
    [nrows |-> nr, ncols |-> nc,
     e |-> [i \in 0..(nr - 1) |-> [c \in 0..(nc - 1) |-> UpdPal[((i + 2 * c + 3 * seed) % 7) + 1]]]]

FillAlpha(len, seed) == [c \in 1..len |-> AlphaPal[((c + seed) % 4) + 1]]

\* [simd]: T::SIMD_CAPABILITIES.is_simd(); [contiguous]: both
\* try_as_col_major_mut conversions of run succeed
UpdEnvs ==
    { [simd |-> TRUE, contiguous |-> TRUE],
      [simd |-> TRUE, contiguous |-> FALSE],
      [simd |-> FALSE, contiguous |-> TRUE] }

\* what the remaining-rank closure r of a RankRUpdate returns at column jj
RankModes == {"zero", "full", "shrinking", "over"}

RankAt(mode, k, jj) ==
    CASE mode = "zero" -> 0
      [] mode = "full" -> k
      [] mode = "shrinking" -> IF jj < k THEN k - jj ELSE 0
      [] mode = "over" -> k + 1

\* a call on a factorization buffer of s[1] x s[2], a W of s[3] x s[4], s[5] scalings
UpdScenario(en, s, mode, seed, env) ==
    [entry |-> en,
     ld |-> FillLD(s[1], s[2], seed),
     w |-> FillW(s[3], s[4], seed),
     alpha |-> FillAlpha(s[5], seed),
     mode |-> mode,
     seed |-> seed,
     env |-> env]

UpdShapes == {<<n, n, n, k, k>> : n \in 0..MaxN, k \in 0..MaxK}

\* shapes that break one of the three conditions of a call
UpdBadShapes ==
    {<<n, n, n - 1, k, k>> : n \in 1..MaxN, k \in 1..2}
    \cup {<<n, n, n + 1, k, k>> : n \in 1..MaxN, k \in 1..2}
    \cup {<<n, n + 1, n, k, k>> : n \in 1..MaxN, k \in 1..2}
    \cup {<<n, n - 1, n, k, k>> : n \in 1..MaxN, k \in 1..2}
    \cup {<<n, n, n, k, k - 1>> : n \in 1..MaxN, k \in 1..2}

UpdScenarios ==
    { UpdScenario("clobber", s, "full", Seeds[x], env) :
      s \in UpdShapes \cup UpdBadShapes, x \in 1..NumSeeds, env \in UpdEnvs }
    \cup
    { UpdScenario("run", s, mode, Seeds[x], env) :
      s \in UpdShapes, mode \in RankModes, x \in 1..NumSeeds, env \in UpdEnvs }

(***************************************************************************)
(* The rank update as a state machine                                      *)
(***************************************************************************)
UpdIdle == /\ matrix = Null /\ blocksize = 0 /\ head = Null /\ tail = Null /\ ret = Null

InitUpd ==
    /\ \E sc \in UpdScenarios : arg = sc /\ ld = sc.ld /\ w = sc.w /\ alpha = sc.alpha
    /\ pc = "call"
    /\ j = 0
    /\ applied = <<>>
    /\ UpdIdle

\* rank_r_update_clobber up to the call of run: `if n == 0 { return; }`
UpdClobberCall ==
    /\ pc = "call"
    /\ arg.entry = "clobber"
    /\ pc' = IF ld.nrows = 0 THEN "done" ELSE "run"
    /\ UNCHANGED <<arg, matrix, j, blocksize, applied, ld, w, alpha, head, tail, ret>>

\* RankRUpdate { ld, w, alpha, r }.run() with a remaining-rank closure of its own
UpdRunCall ==
    /\ pc = "call"
    /\ arg.entry = "run"
    /\ pc' = "run"
    /\ UNCHANGED <<arg, matrix, j, blocksize, applied, ld, w, alpha, head, tail, ret>>

\* mutant: the column loop steps over every other column
NextColumnSkip(jj) == jj + 2

\* `for j in 0..n`: the column after jj
NextColumn(jj) == jj + 1

\* the calls of the closure r so far, with r() called for column jj unless
\* ld.col_mut(jj) has panicked before it, and the sub-blocks whose kernel was
\* called in that column
RankCalls(calls, ld_, jj, rv, blocks) ==
    IF jj >= ld_.ncols THEN calls
    ELSE Append(calls, [col |-> jj, returned |-> rv, blocks |-> blocks])

\* one iteration of `for j in 0..n` of run, n = w.nrows(); ret logs what each
\* call of r returned
UpdColumn ==
    /\ pc = "run"
    /\ j < w.nrows
    /\ LET rv == IF arg.entry = "clobber" THEN w.ncols ELSE RankAt(arg.mode, w.ncols, j)
       IN  \E out \in {ColumnStep(RunState(ld, w, alpha, applied), j, rv,
                                    arg.env.simd, arg.env.contiguous)} :
               /\ out = out
               /\ ld' = out.ld
               /\ w' = out.w
               /\ alpha' = out.alpha
               /\ applied' = out.log
               /\ ret' = RankCalls(ret, ld, j, rv, out.blocks)
               /\ IF out.ok
                  THEN pc' = pc /\ j' = NextColumn(j)
                  ELSE pc' = "panic" /\ j' = j
    /\ UNCHANGED <<arg, matrix, blocksize, head, tail>>

\* the loop of run is over: the call returns
UpdReturn ==
    /\ pc = "run"
    /\ j >= w.nrows
    /\ pc' = "done"
    /\ UNCHANGED <<arg, matrix, j, blocksize, applied, ld, w, alpha, head, tail, ret>>

NextUpd == UpdClobberCall \/ UpdRunCall \/ UpdColumn \/ UpdReturn

SpecUpd == InitUpd /\ [][NextUpd]_vars

(***************************************************************************)
(* Rank update: properties                                                 *)
(***************************************************************************)
\* the three shape conditions of a call
UpdShapesOk(sc) ==
    /\ sc.ld.nrows = sc.ld.ncols
    /\ sc.w.nrows = sc.ld.nrows
    /\ Len(sc.alpha) >= sc.w.ncols

\* the real diagonal of a factorization buffer, as a diagonal matrix
DiagOf(A) ==
    Force([nrows |-> A.nrows, ncols |-> A.ncols,
           e |-> [i \in Rows(A) |-> [c \in Cols(A) |->
                    IF i = c THEN from_real(real(A.e[i][i])) ELSE CZero]]])

\* diag(a) for a sequence of k scalings
DiagMat(a, k) ==
    Force([nrows |-> k, ncols |-> k,
           e |-> [i \in 0..(k - 1) |-> [c \in 0..(k - 1) |-> IF i = c THEN a[i + 1] ELSE CZero]]])

Adjoint(A) == Conjugate(Transpose(A), TRUE)

\* L D L^H for the unit lower triangle L and the diagonal D of the buffer A
Reconstruct(A) ==
    LET L == UnitLower(A)
        LD == MatMul(L, DiagOf(A))
        LH == Adjoint(L)
    IN  IF L = L /\ LD = LD /\ LH = LH THEN MatMul(LD, LH) ELSE A

\* W diag(a) W^H
UpdateTerm(W, a) ==
    LET WD == MatMul(W, DiagMat(a, W.ncols))
        WH == Adjoint(W)
    IN  IF WD = WD /\ WH = WH THEN MatMul(WD, WH) ELSE W

\* every pivot computed so far is finite and non-zero
PivotsNonZero == \A i \in 1..Len(applied) : applied[i].new_d[1] # 0 /\ applied[i].new_d[2] # 0

\* C6: when rank_r_update_clobber returns from a call with a square n x n
\* buffer (n >= 1), an n x k matrix W (k >= 0) and k real scalings, and every
\* updated pivot was non-zero, the buffer holds L', D' with
\* L' D' L'^H = L D L^H + W diag(alpha) W^H for the L, D, W, alpha of the call.
C6_RankUpdateIdentity ==
    (/\ arg.entry = "clobber"
     /\ UpdShapesOk(arg)
     /\ arg.ld.nrows >= 1
     /\ pc = "done"
     /\ PivotsNonZero) =>
        Reconstruct(ld) = MatAdd(Reconstruct(arg.ld), UpdateTerm(arg.w, arg.alpha))

C6_Witness ==
    /\ arg.entry = "clobber"
    /\ UpdShapesOk(arg)
    /\ arg.ld.nrows = MaxN
    /\ arg.w.ncols = BLOCKSIZE + 1
    /\ pc = "done"
    /\ PivotsNonZero
    /\ Len(applied) = MaxN * (BLOCKSIZE + 1)
    /\ \A i \in Rows(ld) : ld.e[i][0] # arg.ld.e[i][0]

\* C7: while the active rank is 0 at every column (W has no columns, or the
\* remaining-rank closure returns 0 at every column) no entry of the
\* factorization buffer changes, whatever the dimension.
C7_RankZeroFrame ==
    (arg.w.ncols = 0 \/ (arg.entry = "run" /\ arg.mode = "zero")) =>
        (ld = arg.ld /\ pc # "panic")

C7_Witness ==
    /\ pc = "done"
    /\ arg.entry = "run"
    /\ arg.mode = "zero"
    /\ arg.w.ncols >= 1
    /\ arg.ld.nrows = MaxN
    /\ j = MaxN
    /\ ld = arg.ld

\* C8 as stated: a call of rank_r_update_clobber whose operands break one of
\* the three shape conditions never returns, and when it has aborted the
\* factorization buffer holds its initial entries.
C8_MismatchAborts ==
    (arg.entry = "clobber" /\ ~UpdShapesOk(arg)) =>
        /\ pc # "done"
        /\ pc = "panic" => ld = arg.ld

\* a pivot that is not greater than zero
NonPositive(x) == ~RLt(RZero, x)

\* C9: in a call of rank_r_update_clobber with conforming shapes no pivot
\* value aborts the run; a pivot that is zero or negative is stored on the
\* diagonal like any other (the last pivot computed for a column is that
\* column's diagonal entry), and the run computes a pivot for every
\* perturbation column at every factorization column, in order.
C9_NonPositivePivotContinues ==
    (arg.entry = "clobber" /\ UpdShapesOk(arg)) =>
        /\ pc # "panic"
        /\ \A i \in 1..Len(applied) :
              /\ applied[i].col = (i - 1) \div arg.w.ncols
              /\ applied[i].k = (i - 1) % arg.w.ncols
              /\ (NonPositive(applied[i].new_d) /\ applied[i].k = arg.w.ncols - 1) =>
                    ld.e[applied[i].col][applied[i].col] = from_real(applied[i].new_d)
        /\ pc = "run" => Len(applied) = j * arg.w.ncols
        /\ (pc = "done" /\ arg.ld.nrows > 0) => Len(applied) = arg.ld.nrows * arg.w.ncols

C9_Witness ==
    /\ arg.entry = "clobber"
    /\ UpdShapesOk(arg)
    /\ pc = "done"
    /\ arg.ld.nrows = MaxN
    /\ \E i \in 1..Len(applied) :
          /\ applied[i].col = 0
          /\ applied[i].new_d = RZero
          /\ i < Len(applied)
    /\ \E i \in 1..Len(applied) :
          /\ applied[i].k = arg.w.ncols - 1
          /\ RLt(applied[i].new_d, RZero)
          /\ ld.e[applied[i].col][applied[i].col] = from_real(applied[i].new_d)

(***************************************************************************)
(* make_householder_in_place (householder.rs)                              *)
(***************************************************************************)
\* min_positive(): the smallest positive normal value of the real type. The
\* code only compares norms with it, so a small rational stands for it.
min_positive == <<1, 8>>

infinity == RInf

one_half == <<1, 2>>

\* abs of a complex value and norm_l2 of a column, for inputs whose norms are rational
abs(z) == RSqrt(abs2(z))

RECURSIVE SumAbs2(_, _)
SumAbs2(t, n) == IF n = 0 THEN RZero ELSE RAdd(SumAbs2(t, n - 1), abs2(t[n]))

norm_l2(t) == RSqrt(SumAbs2(t, Len(t)))

hypot(a, b) == RSqrt(RAdd(RMul(a, a), RMul(b, b)))

\* mutant: the head is left as it is
FlushedHeadKept(h) == h

\* lines 62-66: a head below min_positive is replaced by zero
FlushedHead(h) == IF RLt(abs(h), min_positive) THEN CZero ELSE h

\* mutant: only a tail norm of exactly zero is degenerate
TailDegenerateZero(tail_norm) == tail_norm = RZero

\* line 68: tail_norm < min_positive()
TailDegenerate(tail_norm) == RLt(tail_norm, min_positive)

\* mutant: the sign is taken to be one whatever the head
signOne(h, head_norm) == COne

\* lines 76-80
sign(h, head_norm) == IF head_norm # RZero THEN mul_real(h, RRecip(head_norm)) ELSE COne

\* Option<T>
None == <<>>

Some(x) == <<x>>

\* mutant: the conjugate of the inverse is returned
ReturnedConj(tau, head_with_beta_inv) ==
    [tau |-> from_real(tau), inv |-> Some(conj(head_with_beta_inv))]

\* line 93: (from_real(tau), head_with_beta_inv.into())
Returned(tau, head_with_beta_inv) ==
    [tau |-> from_real(tau), inv |-> Some(head_with_beta_inv)]

\* imp of make_householder_in_place: the head and tail it leaves and what it returns
make_householder_in_place(h0, t0) ==
    LET tail_norm == norm_l2(t0)
        h == FlushedHead(h0)
        head_norm == abs(h)
    IN  IF TailDegenerate(tail_norm)
        THEN [head |-> h, tail |-> t0, tau |-> from_real(infinity), inv |-> None]
        ELSE LET norm == hypot(head_norm, tail_norm)
                 sgn == sign(h, head_norm)
                 signed_norm == mul(sgn, from_real(norm))
                 head_with_beta == CAdd(h, signed_norm)
                 head_with_beta_inv == recip(head_with_beta)
                 s == RMul(tail_norm, abs(head_with_beta_inv))
                 tau == RMul(one_half, RAdd(ROne, RMul(s, s)))
                 r == Returned(tau, head_with_beta_inv)
             IN  [head |-> CNeg(signed_norm),
                  tail |-> [i \in 1..Len(t0) |-> mul(t0[i], head_with_beta_inv)],
                  tau |-> r.tau,
                  inv |-> r.inv]

(***************************************************************************)
(* Inputs of make_householder_in_place                                     *)
(***************************************************************************)
MaxTail == 2    \* longest tail

\* entries of heads and tails before scaling
HHPal == {Cx(0, 0), Cx(3, 0), Cx(-3, 0), Cx(0, 4), Cx(-4, 0), Cx(12, 0), Cx(0, -5), Cx(3, 4), Cx(8, 0), Cx(0, 15), Cx(6, -6)}

\* scales: entries of order one, and entries around min_positive
HHScales == {<<1, 1>>, <<1, 32>>}

Tails(len) == [1..len -> HHPal]

Scaled(t, sc) == [i \in 1..Len(t) |-> mul_real(t[i], sc)]

\* the inputs whose norms the rational arithmetic represents exactly
ExactNorms(h, t) ==
    /\ IsSquare(abs2(h))
    /\ IsSquare(SumAbs2(t, Len(t)))
    /\ IsSquare(RAdd(abs2(h), SumAbs2(t, Len(t))))

\* entries that are not finite: an infinity, a NaN, an infinite imaginary part
NonFinitePal == {<<RInf, RZero>>, <<RNaN, RZero>>, <<RZero, RNeg(RInf)>>}

\* calls with a head or a tail entry that is not finite
NonFiniteScenarios ==
    { [head |-> h, tail |-> <<t>>] : h \in {Cx(3, 0)} \cup NonFinitePal, t \in NonFinitePal }
        \cup { [head |-> h, tail |-> <<Cx(0, 4)>>] : h \in NonFinitePal }

HHScenarios ==
    { sc \in { [head |-> mul_real(h, x), tail |-> Scaled(t, x)] :
               h \in HHPal, t \in UNION {Tails(len) : len \in 0..MaxTail}, x \in HHScales } :
      ExactNorms(sc.head, sc.tail) }
        \cup NonFiniteScenarios

HHIdle ==
    /\ matrix = Null /\ j = 0 /\ blocksize = 0 /\ applied = <<>>
    /\ ld = Null /\ w = Null /\ alpha = Null

InitHH ==
    /\ \E sc \in HHScenarios : arg = sc /\ head = sc.head /\ tail = sc.tail
    /\ pc = "call"
    /\ ret = Null
    /\ HHIdle

\* a call whose tail norm is below min_positive: `return (infinity(), None)`
HHReturnIdentity ==
    /\ pc = "call"
    /\ RLt(norm_l2(tail), min_positive)
    /\ \E out \in {make_householder_in_place(head, tail)} :
           /\ head' = out.head
           /\ tail' = out.tail
           /\ ret' = [tau |-> out.tau, inv |-> out.inv]
    /\ pc' = "done"
    /\ UNCHANGED <<arg, matrix, j, blocksize, applied, ld, w, alpha>>

\* a call that builds the reflector
HHReflect ==
    /\ pc = "call"
    /\ ~RLt(norm_l2(tail), min_positive)
    /\ \E out \in {make_householder_in_place(head, tail)} :
           /\ out = out
           /\ head' = out.head
           /\ tail' = out.tail
           /\ ret' = [tau |-> out.tau, inv |-> out.inv]
    /\ pc' = "done"
    /\ UNCHANGED <<arg, matrix, j, blocksize, applied, ld, w, alpha>>

NextHH == HHReturnIdentity \/ HHReflect

SpecHH == InitHH /\ [][NextHH]_vars

(***************************************************************************)
(* make_householder_in_place: properties                                   *)
(***************************************************************************)
\* ||x|| for x = [h; t]
NormX(h, t) == RSqrt(RAdd(abs2(h), SumAbs2(t, Len(t))))

\* sign = h / |h|, or 1 when h is zero
SignX(h) == IF h = CZero THEN COne ELSE mul_real(h, RRecip(abs(h)))

\* -sign ||x||
Beta(h, t) == CNeg(mul_real(SignX(h), NormX(h, t)))

\* v^H x for v = [1; vt] and x = [h; t]
RECURSIVE DotTail(_, _, _)
DotTail(vt, t, n) == IF n = 0 THEN CZero ELSE CAdd(DotTail(vt, t, n - 1), mul(conj(vt[n]), t[n]))

\* (I - v v^H / tau) x for v = [1; vt], as the pair of its head and its tail
Reflect(vt, tau, h, t) ==
    LET k == mul_real(CAdd(h, DotTail(vt, t, Len(t))), RRecip(real(tau)))
    IN  [head |-> CSub(h, k), tail |-> [i \in 1..Len(t) |-> CSub(t[i], mul(vt[i], k))]]

\* what the claim says of a call on head h and tail t
ReflectorOf(h, t) ==
    /\ head = Beta(h, t)
    /\ tail = [i \in 1..Len(t) |-> mul(t[i], recip(CSub(h, Beta(h, t))))]
    /\ Reflect(tail, ret.tau, h, t) = [head |-> Beta(h, t), tail |-> [i \in 1..Len(t) |-> CZero]]

RFinite(r) == r[2] # 0

CFinite(z) == RFinite(z[1]) /\ RFinite(z[2])

FiniteInput(h, t) == CFinite(h) /\ \A i \in 1..Len(t) : CFinite(t[i])

EffectiveHead == FlushedHead(arg.head)

\* a call on finite entries that built a reflector
Reflected ==
    /\ pc = "done"
    /\ FiniteInput(arg.head, arg.tail)
    /\ ~RLt(norm_l2(arg.tail), min_positive)

UPGRADE_BASE == 8

DivCeil(a, b) == (a + b - 1) \div b

adjoint(A) == Conjugate(Transpose(A), TRUE)

\* the assertion that opens the function
UpgradeShapesOk(householder_factor, essentials) ==
    /\ householder_factor.nrows = householder_factor.ncols
    /\ essentials.ncols = householder_factor.ncols

\* mutant: only equal block sizes return early
UpgradeNothingToDoEqualOnly(householder_factor, bsz, prev_blocksize) ==
    bsz = prev_blocksize

\* `if blocksize == prev_blocksize || householder_factor.nrows() <= prev_blocksize`
UpgradeNothingToDo(householder_factor, bsz, prev_blocksize) ==
    bsz = prev_blocksize \/ householder_factor.nrows <= prev_blocksize

\* a product accumulated into dst read as BlockStructure::UnitTriangularUpper:
\* the entries above the diagonal are written, the diagonal and what lies
\* below it are not
AccumUnitUpper(dst, G) ==
    Force([nrows |-> dst.nrows, ncols |-> dst.ncols,
     e |-> [i \in Rows(dst) |-> [c \in Cols(dst) |->
              IF i < c THEN G.e[i][c] ELSE dst.e[i][c]]]])

\* basis_top^H * basis_top on unit triangles, then + basis_bot^H * basis_bot
UpgradeGramOnViews(householder_factor, basis_top, basis_bot) ==
    AccumUnitUpper(householder_factor,
        MatAdd(MatMul(adjoint(UnitLower(basis_top)), UnitLower(basis_top)),
               MatMul(adjoint(basis_bot), basis_bot)))

\* the branch prev_blocksize < 8; essentials.split_at_row(n) needs n rows
UpgradeGram(householder_factor, essentials) ==
    IF essentials.nrows < householder_factor.nrows
    THEN Outcome(FALSE, householder_factor)
    ELSE Outcome(TRUE,
           UpgradeGramOnViews(householder_factor,
               submatrix_range(essentials, 0, householder_factor.nrows, 0, householder_factor.ncols),
               submatrix_range(essentials, householder_factor.nrows, essentials.nrows,
                               0, householder_factor.ncols)))

\* mutant: the rows of the basis below the block are left out of tau_tr
UpgradeTopRightTopOnly(basis_left_top, basis_left_bot, basis_right_top, basis_right_bot) ==
    MatMul(adjoint(basis_left_top), UnitLower(basis_right_top))

\* tau_tr: basis_left_top^H * basis_right_top (unit lower) + basis_left_bot^H * basis_right_bot
UpgradeTopRight(basis_left_top, basis_left_bot, basis_right_top, basis_right_bot) ==
    MatAdd(MatMul(adjoint(basis_left_top), UnitLower(basis_right_top)),
           MatMul(adjoint(basis_left_bot), basis_right_bot))

\* mutant: the split leaves the whole buffer to the second call
MultiBlockMidZero(nrows, bsz) == 0

\* `let mid = block_count / 2;` of the branch block_count > 1
MultiBlockMid(nrows, bsz) == DivCeil(nrows, bsz) \div 2

\* mutant: the second call's block is stored into the top right block as well
UpgradeJoinTopRight(householder_factor, mid, tl, br) ==
    Outcome(tl.ok /\ br.ok,
            WriteBack(WriteBack(WriteBack(householder_factor, 0, mid, br.matrix),
                                0, 0, tl.matrix), mid, mid, br.matrix))

\* the two diagonal sub-blocks written back after their own upgrades
UpgradeJoin(householder_factor, mid, tl, br) ==
    Outcome(tl.ok /\ br.ok,
            WriteBack(WriteBack(householder_factor, 0, 0, tl.matrix), mid, mid, br.matrix))

\* the top right block written after the two halves
UpgradeStoreTopRight(halves, mid, tau_tr) ==
    IF halves.ok THEN Outcome(TRUE, WriteBack(halves.matrix, 0, mid, tau_tr)) ELSE halves

RECURSIVE upgrade_householder_factor(_, _, _, _)

\* split_at_mut(mid, mid), split_at_col(mid), basis_right.split_at_row(mid).1 and
\* the two recursive calls; a split past the last row of the basis panics
UpgradeHalves(householder_factor, essentials, bsz, prev_blocksize, mid) ==
    IF essentials.nrows < mid
    THEN Outcome(FALSE, householder_factor)
    ELSE UpgradeJoin(householder_factor, mid,
           upgrade_householder_factor(
               submatrix_range(householder_factor, 0, mid, 0, mid),
               submatrix_range(essentials, 0, essentials.nrows, 0, mid),
               bsz, prev_blocksize),
           upgrade_householder_factor(
               submatrix_range(householder_factor, mid, householder_factor.nrows,
                               mid, householder_factor.ncols),
               submatrix_range(essentials, mid, essentials.nrows, mid, essentials.ncols),
               bsz, prev_blocksize))

\* the branch prev_blocksize >= 8: both halves, then tau_tr from the rows of
\* the basis from mid on, cut at row_mid = basis_right.ncols()
UpgradeMerge(householder_factor, essentials, bsz, prev_blocksize, mid) ==
    IF essentials.nrows < householder_factor.nrows
    THEN Outcome(FALSE, householder_factor)
    ELSE UpgradeStoreTopRight(
           UpgradeHalves(householder_factor, essentials, bsz, prev_blocksize, mid),
           mid,
           UpgradeTopRight(
               submatrix_range(essentials, mid, householder_factor.nrows, 0, mid),
               submatrix_range(essentials, householder_factor.nrows, essentials.nrows, 0, mid),
               submatrix_range(essentials, mid, householder_factor.nrows,
                               mid, essentials.ncols),
               submatrix_range(essentials, householder_factor.nrows, essentials.nrows,
                               mid, essentials.ncols)))

\* the whole function; [ok] is FALSE when an assertion, a division by zero or
\* a split out of range ends the call
upgrade_householder_factor(householder_factor, essentials, bsz, prev_blocksize) ==
    IF ~UpgradeShapesOk(householder_factor, essentials)
    THEN Outcome(FALSE, householder_factor)
    ELSE IF UpgradeNothingToDo(householder_factor, bsz, prev_blocksize)
    THEN Outcome(TRUE, householder_factor)
    ELSE IF bsz = 0
    THEN Outcome(FALSE, householder_factor)
    ELSE IF DivCeil(householder_factor.nrows, bsz) > 1
    THEN (IF prev_blocksize = 0 \/ ~(bsz > prev_blocksize /\ bsz % prev_blocksize = 0)
          THEN Outcome(FALSE, householder_factor)
          ELSE UpgradeHalves(householder_factor, essentials, bsz, prev_blocksize,
                             MultiBlockMid(householder_factor.nrows, bsz)))
    ELSE IF prev_blocksize < UPGRADE_BASE
    THEN UpgradeGram(householder_factor, essentials)
    ELSE UpgradeMerge(householder_factor, essentials, bsz, prev_blocksize,
                      (DivCeil(householder_factor.nrows, prev_blocksize) \div 2) * prev_blocksize)

MaxFactor == 10    \* largest dimension of a factor buffer given to an upgrade
DeepFactor == 17   \* a factor buffer that spans three blocks of UPGRADE_BASE columns

\* <<blocksize, prev_blocksize>> of a call
UpgradeSizes ==
    { <<2, 2>>, <<2, 1>>, <<4, 2>>, <<3, 2>>, <<16, 2>>, <<16, 4>>,
      <<16, 8>>, <<18, 9>>, <<0, 1>>, <<2, 0>> }

\* entry k of column c of the basis read as unit lower trapezoidal
UnitColumnEntry(essentials, k, c) ==
    IF k = c THEN COne ELSE IF k > c THEN essentials.e[k][c] ELSE CZero

\* v_i^H * v_c for columns i and c of the basis
GramEntry(essentials, i, c) ==
    CSum([k \in Rows(essentials) |->
            mul(conj(UnitColumnEntry(essentials, k, i)), UnitColumnEntry(essentials, k, c))],
         0, essentials.nrows)

SameDiagonalBlock(i, c, width) == width > 0 /\ i \div width = c \div width

\* a factor buffer as an earlier pass with blocks of prev_blocksize leaves it:
\* tau on the diagonal, T inside the diagonal blocks when [blocks_done], and
\* stale entries everywhere else
UpgradeFactor(rows, cols, essentials, prev_blocksize, blocks_done) ==
    [nrows |-> rows, ncols |-> cols,
     e |-> [i \in 0..(rows - 1) |-> [c \in 0..(cols - 1) |->
              IF i = c THEN TauPal[(i % 3) + 1]
              ELSE IF i < c /\ c < essentials.ncols /\ blocks_done
                        /\ SameDiagonalBlock(i, c, prev_blocksize)
              THEN GramEntry(essentials, i, c)
              ELSE Pal[((2 * i + 3 * c + 1) % 7) + 1]]]]

\* d = <<0, 0>> conforms; d[1] widens the factor, d[2] widens the basis
UpgradeScenario(n, extra, d, sizes, blocks_done) ==
    [essentials |-> Fill(n + extra, n + d[2], 3),
     householder_factor |->
         UpgradeFactor(n, n + d[1], Fill(n + extra, n + d[2], 3), sizes[2], blocks_done),
     blocksize |-> sizes[1],
     prev_blocksize |-> sizes[2]]

UpgradeScenarios ==
    { UpgradeScenario(n, extra, <<0, 0>>, sizes, blocks_done) :
      n \in 1..MaxFactor, extra \in 0..1, sizes \in UpgradeSizes, blocks_done \in BOOLEAN }
    \cup
    { UpgradeScenario(DeepFactor, extra, <<0, 0>>, sizes, blocks_done) :
      extra \in 0..1, sizes \in {<<32, 8>>, <<32, 4>>}, blocks_done \in BOOLEAN }
    \cup
    { UpgradeScenario(n, 1, d, sizes, TRUE) :
      n \in 1..2, d \in {<<1, 0>>, <<0, 1>>}, sizes \in {<<2, 2>>, <<2, 1>>, <<4, 2>>} }

UpgradeIdle ==
    /\ j = 0 /\ blocksize = 0 /\ applied = <<>> /\ ld = Null /\ w = Null
    /\ alpha = Null /\ head = Null /\ tail = Null /\ ret = Null

InitUpgrade ==
    /\ \E sc \in UpgradeScenarios : arg = sc /\ matrix = sc.householder_factor
    /\ pc = "call"
    /\ UpgradeIdle

\* a call whose shapes fail the assertion
UpgradeAbort ==
    /\ pc = "call"
    /\ ~UpgradeShapesOk(matrix, arg.essentials)
    /\ \E out \in {upgrade_householder_factor(matrix, arg.essentials,
                                              arg.blocksize, arg.prev_blocksize)} :
           /\ matrix' = out.matrix
           /\ pc' = IF out.ok THEN "done" ELSE "panic"
    /\ UNCHANGED <<arg, j, blocksize, applied, ld, w, alpha, head, tail, ret>>

\* a call that returns at the first `return`
UpgradeReturnEarly ==
    /\ pc = "call"
    /\ UpgradeShapesOk(matrix, arg.essentials)
    /\ UpgradeNothingToDo(matrix, arg.blocksize, arg.prev_blocksize)
    /\ \E out \in {upgrade_householder_factor(matrix, arg.essentials,
                                              arg.blocksize, arg.prev_blocksize)} :
           /\ matrix' = out.matrix
           /\ pc' = IF out.ok THEN "done" ELSE "panic"
    /\ UNCHANGED <<arg, j, blocksize, applied, ld, w, alpha, head, tail, ret>>

\* a call that goes on to split or to compute
UpgradeRun ==
    /\ pc = "call"
    /\ UpgradeShapesOk(matrix, arg.essentials)
    /\ ~UpgradeNothingToDo(matrix, arg.blocksize, arg.prev_blocksize)
    /\ \E out \in {upgrade_householder_factor(matrix, arg.essentials,
                                              arg.blocksize, arg.prev_blocksize)} :
           /\ matrix' = out.matrix
           /\ pc' = IF out.ok THEN "done" ELSE "panic"
    /\ UNCHANGED <<arg, j, blocksize, applied, ld, w, alpha, head, tail, ret>>

NextUpgrade == UpgradeAbort \/ UpgradeReturnEarly \/ UpgradeRun

SpecUpgrade == InitUpgrade /\ [][NextUpgrade]_vars

(***************************************************************************)
(* Properties of upgrade_householder_factor                                *)
(***************************************************************************)
UpgradeEnded == pc \in {"done", "panic"}

\* C13: a call with blocksize = prev_blocksize, or with a factor buffer of at
\* most prev_blocksize rows, leaves every entry of the buffer as it was, and
\* returns when the shapes conform.
C13_EarlyReturnKeepsFactor ==
    (UpgradeEnded
        /\ (arg.blocksize = arg.prev_blocksize
              \/ arg.householder_factor.nrows <= arg.prev_blocksize))
    => /\ matrix = arg.householder_factor
       /\ (arg.householder_factor.nrows = arg.householder_factor.ncols
             /\ arg.essentials.ncols = arg.householder_factor.ncols) => pc = "done"

C13_Witness ==
    /\ pc = "done"
    /\ arg.blocksize = arg.prev_blocksize
    /\ arg.householder_factor.nrows > arg.prev_blocksize
    /\ arg.householder_factor.nrows >= 3
    /\ matrix.e[0][2] # GramEntry(arg.essentials, 0, 2)

\* the factor buffer of the call holds one target block, over a basis tall enough
SingleTargetBlock ==
    /\ arg.householder_factor.nrows = arg.householder_factor.ncols
    /\ arg.essentials.ncols = arg.householder_factor.ncols
    /\ arg.essentials.nrows >= arg.householder_factor.nrows
    /\ arg.blocksize > 0
    /\ arg.householder_factor.nrows <= arg.blocksize

\* inside each diagonal block of prev_blocksize columns the buffer holds T
DiagonalBlocksCorrect ==
    \A i \in Rows(arg.householder_factor) : \A c \in Cols(arg.householder_factor) :
        (i < c /\ SameDiagonalBlock(i, c, arg.prev_blocksize))
            => arg.householder_factor.e[i][c] = GramEntry(arg.essentials, i, c)

\* T above the diagonal, the buffer of the call on and below it
UpgradedFactor ==
    [nrows |-> arg.householder_factor.nrows, ncols |-> arg.householder_factor.ncols,
     e |-> [i \in Rows(arg.householder_factor) |-> [c \in Cols(arg.householder_factor) |->
              IF i < c THEN GramEntry(arg.essentials, i, c)
              ELSE arg.householder_factor.e[i][c]]]]

\* C14: on a factor buffer that holds a single target block whose diagonal
\* blocks of prev_blocksize columns are already correct, the call returns with
\* T[i][c] = v_i^H * v_c in every entry above the diagonal and the diagonal
\* and lower entries as they were, and the merge taken for prev_blocksize >= 8
\* leaves what the full recomputation taken below 8 leaves on the same buffer.
C14_GramEqualsMerge ==
    (UpgradeEnded /\ SingleTargetBlock /\ DiagonalBlocksCorrect)
    => /\ pc = "done"
       /\ matrix = UpgradedFactor
       /\ arg.prev_blocksize >= UPGRADE_BASE
             => matrix = UpgradeGram(arg.householder_factor, arg.essentials).matrix

C14_Witness ==
    /\ pc = "done"
    /\ SingleTargetBlock /\ DiagonalBlocksCorrect
    /\ arg.prev_blocksize >= UPGRADE_BASE
    /\ arg.householder_factor.nrows > 2 * arg.prev_blocksize
    /\ arg.essentials.nrows > arg.householder_factor.nrows
    /\ matrix # arg.householder_factor
    /\ matrix = UpgradedFactor

(***************************************************************************)
(* The rank-1 kernel against the general path                              *)
(***************************************************************************)
\* a conforming single-block call with one reflector that takes the rank-1 kernel
RankOneKernelTaken ==
    /\ arg.entry \in BlockEntries
    /\ ~ShapeMismatch
    /\ arg.householder_basis.ncols = 1
    /\ imag(arg.householder_factor.e[0][0]) = RZero
    /\ arg.env.simd
    /\ Contiguous(arg.entry, arg.env)

\* the operand the same call leaves when it takes the general path
GeneralPathResult ==
    Store(arg.entry,
          (IF TransposeOf(arg.entry)
           THEN apply_block_householder_transpose_on_the_left_in_place_with_conj(
                    arg.householder_basis, arg.householder_factor, arg.conj,
                    View(arg.entry, arg.matrix), FALSE, FALSE)
           ELSE apply_block_householder_on_the_left_in_place_with_conj(
                    arg.householder_basis, arg.householder_factor, arg.conj,
                    View(arg.entry, arg.matrix), FALSE, FALSE)).matrix)

\* C15: for a block of exactly one reflector with a real tau, the rank-1
\* kernel leaves the operand that the general path leaves, for the forward
\* and the transpose entry, both conjugation flags and every operand row
\* count, 1 included.
C15_KernelEqualsGeneral ==
    (pc = "done" /\ RankOneKernelTaken) => matrix = GeneralPathResult

(***************************************************************************)
(* Col<T> and Vec<T> (col/colown.rs)                                       *)
(* A Vec is a sequence, 1-based; a Col owns a matrix of one column.        *)
(***************************************************************************)
MaxLen == 4    \* longest vector converted

Elems == {1, 2, 3}

Vecs == UNION { [1..n -> Elems] : n \in 0..MaxLen }

\* Mat::from_fn(nrows, ncols, f): entry (i, c) is f(i, c)
Mat_from_fn(rows, cols, f) ==
    [nrows |-> rows, ncols |-> cols,
     e |-> [i \in 0..(rows - 1) |-> [c \in 0..(cols - 1) |-> f[i][c]]]]

\* |i, _| f(i)
idx_to_pair(f) == [i \in DOMAIN f |-> [c \in {0} |-> f[i]]]

\* Col::from_fn
from_fn(rows, f) == [column |-> Mat_from_fn(rows, 1, idx_to_pair(f))]

col_nrows(col) == col.column.nrows

\* `1`, whatever the column holds
col_ncols(col) == 1

\* std::ptr::read(col.ptr_inbounds_at_mut(i))
ColRead(col, i) == col.column.e[i][0]

\* mutant: the vector is read from its far end
VecReadReversed(vec, i) == vec[Len(vec) - i]

\* std::ptr::read(&vec[i])
VecRead(vec, i) == vec[i + 1]

\* impl From<Vec<T>> for Col<T>
ColFromVec(vec) == from_fn(Len(vec), [i \in 0..(Len(vec) - 1) |-> VecRead(vec, i)])

\* vec.push(std::ptr::read(ptr))
VecPush(vec, col, i) == Append(vec, ColRead(col, i))

ColIdle ==
    /\ blocksize = 0 /\ applied = <<>> /\ ld = Null /\ w = Null
    /\ alpha = Null /\ head = Null /\ tail = Null

InitCol ==
    /\ \E vec \in Vecs : arg = [vec |-> vec]
    /\ pc = "vec"
    /\ matrix = Null
    /\ j = 0
    /\ ret = Null
    /\ ColIdle

\* Col::from(vec)
ColFromVecCall ==
    /\ pc = "vec"
    /\ matrix' = ColFromVec(arg.vec)
    /\ pc' = "col"
    /\ UNCHANGED <<arg, j, blocksize, applied, ld, w, alpha, head, tail, ret>>

\* Vec::from(col) up to the loop: `Vec::with_capacity(n)`
VecFromColCall ==
    /\ pc = "col"
    /\ ret' = <<>>
    /\ j' = 0
    /\ pc' = "push"
    /\ UNCHANGED <<arg, matrix, blocksize, applied, ld, w, alpha, head, tail>>

\* one iteration of `for i in 0..n`
VecFromColPush ==
    /\ pc = "push"
    /\ j < col_nrows(matrix)
    /\ ret' = VecPush(ret, matrix, j)
    /\ j' = j + 1
    /\ UNCHANGED <<pc, arg, matrix, blocksize, applied, ld, w, alpha, head, tail>>

\* the loop is over: the column is forgotten and the vector returned
VecFromColReturn ==
    /\ pc = "push"
    /\ j >= col_nrows(matrix)
    /\ pc' = "done"
    /\ UNCHANGED <<arg, matrix, j, blocksize, applied, ld, w, alpha, head, tail, ret>>

NextCol == ColFromVecCall \/ VecFromColCall \/ VecFromColPush \/ VecFromColReturn

SpecCol == InitCol /\ [][NextCol]_vars

\* C16: the column made from a vector of length n has n rows, one column and
\* the vector's element i at row i (no rows when n = 0); the vector made from
\* a column holds, at any point of its loop, the rows read so far in index
\* order, and on return all of them, so that the round trip gives back the
\* original vector.
C16_VecColRoundTrip ==
    /\ pc \in {"col", "push", "done"} =>
          /\ col_nrows(matrix) = Len(arg.vec)
          /\ col_ncols(matrix) = 1
          /\ matrix.column.ncols = 1
          /\ DOMAIN matrix.column.e = 0..(Len(arg.vec) - 1)
          /\ \A i \in 0..(Len(arg.vec) - 1) : matrix.column.e[i][0] = arg.vec[i + 1]
    /\ pc \in {"push", "done"} =>
          /\ Len(ret) = j
          /\ \A i \in 1..j : ret[i] = matrix.column.e[i - 1][0]
    /\ pc = "done" =>
          /\ Len(ret) = col_nrows(matrix)
          /\ ret = arg.vec

C16_Witness ==
    /\ pc = "done"
    /\ Len(arg.vec) = 3
    /\ arg.vec[1] # arg.vec[2] /\ arg.vec[2] # arg.vec[3] /\ arg.vec[1] # arg.vec[3]
    /\ ret = arg.vec

(***************************************************************************)
(* Rank update: the order of the work                                      *)
(***************************************************************************)
\* the pivots logged by the step that is being taken
NewPivots == SubSeq(applied', Len(applied) + 1, Len(applied'))

\* what a step of the run may do: nothing to j, ret and the log, or process
\* column j as a whole
ColumnOrderStep ==
    /\ j' \in {j, j + 1}
    /\ ret' # ret => (pc = "run" /\ ret' = Append(ret, ret'[Len(ret')]) /\ ret'[Len(ret')].col = j)
    /\ SubSeq(applied', 1, Len(applied)) = applied
    /\ \A i \in 1..Len(NewPivots) : NewPivots[i].col = j /\ NewPivots[i].k = i - 1
    /\ (pc = "run" /\ pc' = "run" /\ j < w.nrows) =>
          /\ j' = j + 1
          /\ Len(ret') = Len(ret) + 1
          /\ Len(NewPivots) = Min(ret'[Len(ret')].returned, w.ncols)
          /\ Len(NewPivots) > 0 =>
                NewPivots[1].new_d =
                    RAdd(real(ld.e[j][j]),
                         real(mul(mul(alpha[1], conj(w.e[j][0])), w.e[j][0])))
          /\ \A i \in Rows(ld) : \A c \in Cols(ld) : c # j => ld'.e[i][c] = ld.e[i][c]
          /\ \A i \in Rows(w) : i <= j => w'.e[i] = w.e[i]

\* on return every column has had its one call of r, in order
OneCallPerColumn ==
    pc = "done" =>
        /\ Len(ret) = (IF arg.entry = "clobber" /\ arg.ld.nrows = 0 THEN 0 ELSE w.nrows)
        /\ \A i \in 1..Len(ret) : ret[i].col = i - 1

\* C17: the run takes the factorization columns j = 0, 1, ..., n - 1 in
\* strictly increasing order, each as a whole (its pivots and its row kernel
\* touch column j of the factorization only, and the first pivot of a column
\* reads what the previous column left), and the remaining-rank function is
\* called exactly once per column, min(returned value, k) being the number of
\* perturbation columns processed for that column.
C17_ColumnOrder == []OneCallPerColumn /\ [][ColumnOrderStep]_vars

C17_Witness ==
    /\ pc = "done"
    /\ arg.mode = "shrinking"
    /\ w.nrows = 2 /\ w.ncols = 5
    /\ Len(ret) = 2 /\ ret[1].returned = 5 /\ ret[2].returned = 4
    /\ Len(applied) = 9
    /\ applied[6].col = 1 /\ applied[6].k = 0

(***************************************************************************)
(* Rank update: the scalars of a pivot                                     *)
(***************************************************************************)
\* the logged pivots before entry i that belong to perturbation column c
EarlierPivots(i, c) == {x \in 1..(i - 1) : applied[x].k = c}

Latest(S) == CHOOSE x \in S : \A y \in S : y <= x

\* alpha[c] as pivot i found it
AlphaBefore(i) ==
    IF EarlierPivots(i, applied[i].k) = {}
    THEN arg.alpha[applied[i].k + 1]
    ELSE applied[Latest(EarlierPivots(i, applied[i].k))].alpha

\* the pivot d as pivot i found it: the diagonal entry of the call for the
\* first perturbation column, the new_d of the previous column after that
PivotBefore(i) ==
    IF applied[i].k = 0
    THEN real(arg.ld.e[applied[i].col][applied[i].col])
    ELSE applied[i - 1].new_d

PivotScalarsAt(i) ==
    /\ applied[i].p = w.e[applied[i].col][applied[i].k]
    /\ applied[i].d = PivotBefore(i)
    /\ applied[i].k > 0 => applied[i - 1].col = applied[i].col /\ applied[i - 1].k = applied[i].k - 1
    /\ applied[i].new_d =
          RAdd(PivotBefore(i),
               real(mul(mul(AlphaBefore(i), applied[i].p), conj(applied[i].p))))
    /\ applied[i].beta =
          mul_real(mul(AlphaBefore(i), conj(applied[i].p)), RRecip(applied[i].new_d))
    /\ applied[i].alpha =
          from_real(RSub(real(AlphaBefore(i)), RMul(applied[i].new_d, abs2(applied[i].beta))))

\* C18: every pivot of the run has p = W[j, c], new_d = real(d) +
\* real(alpha[c] p conj(p)), beta[c] = alpha[c] conj(p) / new_d and the new
\* alpha[c] = real(alpha[c]) - new_d |beta[c]|^2, where d is the diagonal
\* entry of the call for c = 0 and the new_d of column c - 1 after that, also
\* from one sub-block of 4 to the next; between columns the diagonal entry
\* holds the last new_d with a zero imaginary part and alpha the last value
\* computed for each perturbation column.
C18_PivotScalars ==
    pc \in {"run", "done"} =>
        /\ \A i \in 1..Len(applied) : PivotScalarsAt(i)
        /\ \A i \in 1..Len(applied) :
              (i = Len(applied) \/ applied[i + 1].col # applied[i].col)
                  => ld.e[applied[i].col][applied[i].col] = <<applied[i].new_d, RZero>>
        /\ \A c \in 1..Len(alpha) :
              alpha[c] = (IF EarlierPivots(Len(applied) + 1, c - 1) = {}
                          THEN arg.alpha[c]
                          ELSE applied[Latest(EarlierPivots(Len(applied) + 1, c - 1))].alpha)

C18_Witness ==
    /\ pc = "done"
    /\ w.ncols = 5
    /\ \E i \in 2..Len(applied) :
          /\ applied[i].k = 4 /\ applied[i].r = 4 /\ applied[i - 1].r = 0
          /\ applied[i].d = applied[i - 1].new_d
          /\ applied[i].d # real(arg.ld.e[applied[i].col][applied[i].col])
          /\ applied[i].new_d # applied[i].d
          /\ imag(applied[i].p) # RZero
          /\ PivotScalarsAt(i)

(***************************************************************************)
(* Rank update: the sub-blocks of a column                                 *)
(***************************************************************************)
\* the active rank of the column of the i-th call of r
ActiveRankOf(i) == Min(ret[i].returned, arg.w.ncols)

\* the sub-blocks of the column of the i-th call of r that hold perturbation column c
SubBlocksHolding(i, c) ==
    {b \in 1..Len(ret[i].blocks) :
        ret[i].blocks[b].r <= c /\ c < ret[i].blocks[b].r + ret[i].blocks[b].bs}

\* the sub-blocks of a column follow one another from column 0 on, each
\* min(4, columns remaining) wide
ConsecutiveSubBlocks(i) ==
    \A b \in 1..Len(ret[i].blocks) :
        /\ ret[i].blocks[b].r = (IF b = 1 THEN 0
                                 ELSE ret[i].blocks[b - 1].r + ret[i].blocks[b - 1].bs)
        /\ ret[i].blocks[b].bs = Min(4, ActiveRankOf(i) - ret[i].blocks[b].r)
        /\ ret[i].blocks[b].bs >= 1
        /\ ret[i].blocks[b].bs <= 4
        /\ ret[i].blocks[b].arm # 0

\* the pivots of a sub-block are logged with the sub-block they were computed in
PivotsInTheirSubBlock ==
    \A x \in 1..Len(applied) :
        /\ applied[x].r <= applied[x].k
        /\ applied[x].k < applied[x].r + applied[x].bs
        /\ applied[x].r % 4 = 0

\* C19: in every column the active perturbation columns 0..R-1 are cut into
\* consecutive sub-blocks of width min(4, columns remaining); each sub-block
\* has 1 to 4 columns, each active column lies in exactly one sub-block, and
\* no kernel call takes the panic arm: a conforming call of
\* rank_r_update_clobber never ends in a panic.
C19_SubBlocks ==
    /\ pc \in {"run", "done"} =>
          /\ \A i \in 1..Len(ret) :
                /\ ConsecutiveSubBlocks(i)
                /\ \A c \in 0..(ActiveRankOf(i) - 1) : Cardinality(SubBlocksHolding(i, c)) = 1
          /\ PivotsInTheirSubBlock
    /\ \A i \in 1..Len(ret) : \A b \in 1..Len(ret[i].blocks) : ret[i].blocks[b].arm # 0
    /\ (arg.entry = "clobber" /\ UpdShapesOk(arg)) => pc # "panic"

C19_Witness ==
    /\ pc = "done"
    /\ arg.entry = "clobber"
    /\ arg.w.ncols = 5
    /\ Len(ret) = 2
    /\ ret[2].blocks = <<[r |-> 0, bs |-> 4, arm |-> 4], [r |-> 4, bs |-> 1, arm |-> 1]>>

(***************************************************************************)
(* The two row kernels on inputs of their own                              *)
(***************************************************************************)
MaxRows == 5     \* most rows of the slices given to a kernel
MaxWidth == 5    \* most columns of the W given to a kernel

\* the state of run at a kernel call: column jj of a buffer of jj + 1 + rows
\* rows is the L column, its rows below jj the slice; W has the same rows;
\* p and beta are the stack vectors of the sub-block
KernelScenario(kernel, jj, rows, width, seed) ==
    [kernel |-> kernel,
     j |-> jj,
     width |-> width,
     ld |-> FillLD(jj + 1 + rows, jj + 1, seed),
     w |-> FillW(jj + 1 + rows, width, seed),
     p |-> [c \in 1..width |-> UpdPal[((2 * c + seed) % 7) + 1]],
     beta |-> [c \in 1..width |-> UpdPal[((3 * c + seed + 1) % 7) + 1]]]

KernelScenarios ==
    { KernelScenario(kernel, jj, rows, width, seed) :
      kernel \in {"simd", "fallback"}, jj \in 0..1, rows \in 0..MaxRows,
      width \in 0..MaxWidth, seed \in {0, 3} }

\* the state of run a kernel of the scenario is called on
KernelInput(sc) ==
    [RunState(sc.ld, sc.w, <<>>, <<>>) EXCEPT !.p = sc.p, !.beta = sc.beta]

KernelIdle ==
    /\ matrix = Null /\ blocksize = 0 /\ applied = <<>> /\ alpha = Null
    /\ head = Null /\ tail = Null /\ ret = Null

InitKernel ==
    /\ \E sc \in KernelScenarios : arg = sc /\ ld = sc.ld /\ w = sc.w /\ j = sc.j
    /\ pc = "call"
    /\ KernelIdle

\* rank_update_step_simd from call to return or panic
KernelSimd ==
    /\ pc = "call"
    /\ arg.kernel = "simd"
    /\ \E out \in {rank_update_step_simd(KernelInput(arg), j, 0, arg.width)} :
           /\ ld' = out.ld
           /\ w' = out.w
           /\ pc' = IF out.ok THEN "done" ELSE "panic"
    /\ UNCHANGED <<arg, matrix, j, blocksize, applied, alpha, head, tail, ret>>

\* rank_update_step_fallback from call to return or panic
KernelFallback ==
    /\ pc = "call"
    /\ arg.kernel = "fallback"
    /\ \E out \in {rank_update_step_fallback(KernelInput(arg), j, 0, arg.width)} :
           /\ ld' = out.ld
           /\ w' = out.w
           /\ pc' = IF out.ok THEN "done" ELSE "panic"
    /\ UNCHANGED <<arg, matrix, j, blocksize, applied, alpha, head, tail, ret>>

NextKernel == KernelSimd \/ KernelFallback

SpecKernel == InitKernel /\ [][NextKernel]_vars

\* l and the w of row i after the recurrence has gone over columns 1..c
RECURSIVE RowAfter(_, _)
RowAfter(i, c) ==
    IF c = 0
    THEN [l |-> arg.ld.e[i][arg.j], w |-> [x \in 1..arg.width |-> arg.w.e[i][x - 1]]]
    ELSE [l |-> CAdd(RowAfter(i, c - 1).l,
                     mul(arg.beta[c],
                         CAdd(RowAfter(i, c - 1).w[c], mul(arg.p[c], RowAfter(i, c - 1).l)))),
          w |-> [RowAfter(i, c - 1).w EXCEPT
                   ![c] = CAdd(RowAfter(i, c - 1).w[c], mul(arg.p[c], RowAfter(i, c - 1).l))]]

\* the slice rows of L and W hold the recurrence over all columns of W; the
\* rows above the slice are as they were
RecurrenceApplied ==
    /\ \A i \in Rows(ld) :
          ld.e[i][arg.j] = (IF i > arg.j THEN RowAfter(i, arg.width).l ELSE arg.ld.e[i][arg.j])
    /\ \A i \in Rows(w) : \A c \in 1..arg.width :
          w.e[i][c - 1] = (IF i > arg.j THEN RowAfter(i, arg.width).w[c] ELSE arg.w.e[i][c - 1])

\* what the other kernel leaves on the same input
OtherKernel ==
    IF arg.kernel = "simd"
    THEN rank_update_step_fallback(KernelInput(arg), arg.j, 0, arg.width)
    ELSE rank_update_step_simd(KernelInput(arg), arg.j, 0, arg.width)

\* C20: on the same L slice, W columns, p and beta the SIMD kernel and the
\* fallback kernel end alike and leave the same L and W; for a W of 1 to 4
\* columns both return, and every row of the slice holds w_c + p_c l, then
\* l + beta_c w_c, for c = 0, 1, ... in order on the running l, whatever the
\* number of rows (none, fewer than a vector, head and tail vectors).
C20_KernelsAgree ==
    pc # "call" =>
        /\ ld = OtherKernel.ld
        /\ w = OtherKernel.w
        /\ (pc = "done") = OtherKernel.ok
        /\ arg.width \in 1..4 => (pc = "done" /\ RecurrenceApplied)

C20_Witness ==
    /\ pc = "done"
    /\ arg.kernel = "simd"
    /\ arg.width = 4
    /\ arg.j = 0
    /\ ld.nrows = 5
    /\ RecurrenceApplied
    /\ \A i \in 1..4 : ld.e[i][0] # arg.ld.e[i][0]

(***************************************************************************)
(* The multi-block branch of upgrade_householder_factor                    *)
(***************************************************************************)
\* a conforming call whose buffer holds more than one target block
MultiBlockCall ==
    /\ arg.householder_factor.nrows = arg.householder_factor.ncols
    /\ arg.essentials.ncols = arg.householder_factor.ncols
    /\ arg.essentials.nrows >= arg.householder_factor.nrows
    /\ arg.prev_blocksize > 0
    /\ arg.blocksize > arg.prev_blocksize
    /\ arg.blocksize % arg.prev_blocksize = 0
    /\ arg.householder_factor.nrows > arg.prev_blocksize
    /\ DivCeil(arg.householder_factor.nrows, arg.blocksize) > 1

\* every diagonal block of blocksize columns holds T above its diagonal
TargetBlocksUpgraded ==
    \A i \in Rows(matrix) : \A c \in Cols(matrix) :
        (i < c /\ SameDiagonalBlock(i, c, arg.blocksize))
            => matrix.e[i][c] = GramEntry(arg.essentials, i, c)

\* C21: when the buffer holds more than one target block, the call splits
\* factor and basis at an index that is a multiple of blocksize, and the two
\* recursive calls together upgrade every diagonal block of blocksize columns.
C21_SplitAtBlockBoundary ==
    (UpgradeEnded /\ MultiBlockCall /\ DiagonalBlocksCorrect)
    => /\ pc = "done"
       /\ MultiBlockMid(arg.householder_factor.nrows, arg.blocksize) % arg.blocksize = 0
       /\ TargetBlocksUpgraded

\* a call that passes the shape assertion and the early return and finds more
\* than one target block
ReachesMultiBlock ==
    /\ UpgradeShapesOk(arg.householder_factor, arg.essentials)
    /\ ~UpgradeNothingToDo(arg.householder_factor, arg.blocksize, arg.prev_blocksize)
    /\ arg.blocksize > 0
    /\ DivCeil(arg.householder_factor.nrows, arg.blocksize) > 1

\* entry (i, c) lies in the top right or the bottom left block of a split at mid
OffDiagonalOfSplit(i, c, mid) == (i < mid /\ c >= mid) \/ (i >= mid /\ c < mid)

\* C22: in the multi-block case the call writes only inside the two diagonal
\* sub-blocks it hands to its recursive calls: every entry of the top right
\* and of the bottom left sub-block of the split is as it was at the call.
C22_MultiBlockFrame ==
    (UpgradeEnded /\ ReachesMultiBlock)
    => \A i \in Rows(matrix) : \A c \in Cols(matrix) :
           OffDiagonalOfSplit(i, c,
               MultiBlockMid(arg.householder_factor.nrows, arg.blocksize))
           => matrix.e[i][c] = arg.householder_factor.e[i][c]

C22_Witness ==
    /\ pc = "done"
    /\ ReachesMultiBlock
    /\ MultiBlockMid(arg.householder_factor.nrows, arg.blocksize) = 2
    /\ matrix # arg.householder_factor
    /\ matrix.e[0][1] = GramEntry(arg.essentials, 0, 1)
    /\ matrix.e[0][1] # arg.householder_factor.e[0][1]
    /\ matrix.e[1][2] = arg.householder_factor.e[1][2]
    /\ matrix.e[1][2] # GramEntry(arg.essentials, 1, 2)

(***************************************************************************)
(* The blocked merge of upgrade_householder_factor as concurrent tasks     *)
(*                                                                         *)
(* join_raw(a, b, par) runs its two closures, possibly at the same time,   *)
(* and returns when both have returned.  A frame of the merge branch forks *)
(* the two diagonal recursions and the fill of tau_tr; the fill is the     *)
(* product that replaces tau_tr followed by the product added to it.       *)
(* ret holds the tasks that can run, w the frames waiting in join_raw and  *)
(* applied the tasks and frames that have finished, in order.              *)
(***************************************************************************)
\* `let mid = (prev_block_count / 2) * prev_blocksize;`
MergeMid(nrows, prev_blocksize) == (DivCeil(nrows, prev_blocksize) \div 2) * prev_blocksize

\* triangular::matmul(tau_tr, Rectangular, Accum::Replace, basis_left_top^H,
\* Rectangular, basis_right_top, UnitTriangularLower, one)
TopRightProduct(basis_left_top, basis_right_top) ==
    MatMul(adjoint(basis_left_top), UnitLower(basis_right_top))

\* mutant: the second product replaces tau_tr
TopRightAccumulateReplace(tau_tr, basis_left_bot, basis_right_bot) ==
    MatMul(adjoint(basis_left_bot), basis_right_bot)

\* matmul(tau_tr, Accum::Add, basis_left_bot^H, basis_right_bot, one)
TopRightAccumulate(tau_tr, basis_left_bot, basis_right_bot) ==
    MatAdd(tau_tr, MatMul(adjoint(basis_left_bot), basis_right_bot))

\* a call on the diagonal block of [size] columns that starts at column [at]
UpgradeTask(at, size, parent) ==
    [kind |-> "upgrade", at |-> at, size |-> size, parent |-> parent]

\* the fill of tau_tr of the frame <<at, size>>, before or between its products
FillTask(kind, at, size) ==
    [kind |-> kind, at |-> at, size |-> size, parent |-> <<at, size>>]

\* householder_factor and essentials as the call of task t sees them
TaskFactor(t) == submatrix_range(matrix, t.at, t.at + t.size, t.at, t.at + t.size)

TaskBasis(t) ==
    submatrix_range(arg.essentials, t.at, arg.essentials.nrows, t.at, t.at + t.size)

\* the three closures of lines 195-247 for the frame of task t
MergeChildren(t, mid) ==
    { UpgradeTask(t.at, mid, <<t.at, t.size>>),
      UpgradeTask(t.at + mid, t.size - mid, <<t.at, t.size>>),
      FillTask("product", t.at, t.size) }

\* tau_tr after the first product of the fill, from the basis alone
FillProduct(basis, size, mid) ==
    TopRightProduct(submatrix_range(basis, mid, size, 0, mid),
                    submatrix_range(basis, mid, size, mid, size))

\* tau_tr after the second product of the fill
FillAccumulate(tau_tr, basis, size, mid) ==
    TopRightAccumulate(tau_tr,
                       submatrix_range(basis, size, basis.nrows, 0, mid),
                       submatrix_range(basis, size, basis.nrows, mid, size))

\* conforming calls that take the merge branch or return before it
MergeScenarios ==
    { UpgradeScenario(n, extra, <<0, 0>>, sizes, blocks_done) :
      n \in {UPGRADE_BASE} \cup ((UPGRADE_BASE + 1)..MaxFactor) \cup {DeepFactor},
      extra \in 0..1, sizes \in {<<32, 8>>, <<18, 9>>}, blocks_done \in BOOLEAN }

MergeIdle ==
    /\ j = 0 /\ blocksize = 0 /\ ld = Null
    /\ alpha = Null /\ head = Null /\ tail = Null

InitMerge ==
    /\ \E sc \in MergeScenarios : arg = sc /\ matrix = sc.householder_factor
    /\ pc = "call"
    /\ ret = { UpgradeTask(0, arg.householder_factor.nrows, <<>>) }
    /\ w = {}
    /\ applied = <<>>
    /\ MergeIdle

\* a call that returns at line 113-115
MergeReturnEarly ==
    \E t \in ret :
        /\ t.kind = "upgrade"
        /\ UpgradeNothingToDo(TaskFactor(t), arg.blocksize, arg.prev_blocksize)
        /\ ret' = ret \ {t}
        /\ applied' = Append(applied, t)
        /\ pc' = IF t.parent = <<>> THEN "done" ELSE pc
        /\ UNCHANGED <<arg, matrix, j, blocksize, ld, w, alpha, head, tail>>

\* a call that reaches the merge branch, splits at mid and forks its closures
MergeFork ==
    \E t \in ret :
        /\ t.kind = "upgrade"
        /\ ~UpgradeNothingToDo(TaskFactor(t), arg.blocksize, arg.prev_blocksize)
        /\ DivCeil(t.size, arg.blocksize) <= 1
        /\ arg.prev_blocksize >= UPGRADE_BASE
        /\ ret' = (ret \ {t}) \cup MergeChildren(t, MergeMid(t.size, arg.prev_blocksize))
        /\ w' = w \cup {t}
        /\ pc' = "forked"
        /\ UNCHANGED <<arg, matrix, j, blocksize, applied, ld, alpha, head, tail>>

\* the first product of a fill
MergeFillProduct ==
    \E t \in ret :
        /\ t.kind = "product"
        /\ \E mid \in {MergeMid(t.size, arg.prev_blocksize)} :
               matrix' = WriteBack(matrix, t.at, t.at + mid,
                                   FillProduct(TaskBasis(t), t.size, mid))
        /\ ret' = (ret \ {t}) \cup {FillTask("accumulate", t.at, t.size)}
        /\ UNCHANGED <<pc, arg, j, blocksize, applied, ld, w, alpha, head, tail>>

\* the second product of a fill, which ends the closure
MergeFillAccumulate ==
    \E t \in ret :
        /\ t.kind = "accumulate"
        /\ \E mid \in {MergeMid(t.size, arg.prev_blocksize)} :
               matrix' = WriteBack(matrix, t.at, t.at + mid,
                   FillAccumulate(
                       submatrix_range(matrix, t.at, t.at + mid, t.at + mid, t.at + t.size),
                       TaskBasis(t), t.size, mid))
        /\ ret' = ret \ {t}
        /\ applied' = Append(applied, t)
        /\ UNCHANGED <<pc, arg, j, blocksize, ld, w, alpha, head, tail>>

\* the tasks and frames forked by the frame <<at, size>> that have not finished
Unfinished(frame) ==
    { t \in ret \cup w : t.parent = frame }

\* join_raw returns and the frame with it
MergeJoin ==
    \E f \in w :
        /\ Unfinished(<<f.at, f.size>>) = {}
        /\ w' = w \ {f}
        /\ applied' = Append(applied, f)
        /\ pc' = IF f.parent = <<>> THEN "done" ELSE pc
        /\ UNCHANGED <<arg, matrix, j, blocksize, ld, ret, alpha, head, tail>>

NextMerge ==
    MergeReturnEarly \/ MergeFork \/ MergeFillProduct \/ MergeFillAccumulate \/ MergeJoin

SpecMerge == InitMerge /\ [][NextMerge]_vars

(***************************************************************************)
(* Properties of the concurrent merge                                      *)
(***************************************************************************)
\* entry (i, c) lies in tau_tr of the frame of fill task t
InTopRight(t, i, c) ==
    /\ t.at <= i /\ i < t.at + MergeMid(t.size, arg.prev_blocksize)
    /\ t.at + MergeMid(t.size, arg.prev_blocksize) <= c /\ c < t.at + t.size

\* entry (i, c) lies in the part of the factor task t may write
InWriteRegion(t, i, c) ==
    IF t.kind = "upgrade"
    THEN t.at <= i /\ i < t.at + t.size /\ t.at <= c /\ c < t.at + t.size
    ELSE InTopRight(t, i, c)

\* the tasks that can run at the same time write disjoint parts of the factor
TasksDisjoint ==
    \A t1 \in ret : \A t2 \in ret \ {t1} :
        \A i \in Rows(matrix) : \A c \in Cols(matrix) :
            ~(InWriteRegion(t1, i, c) /\ InWriteRegion(t2, i, c))

\* a finished fill has left v_i^H * v_c of the basis in tau_tr, whatever the
\* other tasks have done to the factor meanwhile
FinishedFillsFromBasis ==
    \A n \in 1..Len(applied) :
        applied[n].kind = "accumulate"
        => \A i \in Rows(matrix) : \A c \in Cols(matrix) :
               InTopRight(applied[n], i, c)
               => matrix.e[i][c] = GramEntry(arg.essentials, i, c)

\* the call has returned only with every task and frame finished, and with the
\* factor that the calls made one after the other leave
MergeReturned ==
    pc = "done"
    => /\ ret = {} /\ w = {}
       /\ matrix = upgrade_householder_factor(arg.householder_factor, arg.essentials,
                                              arg.blocksize, arg.prev_blocksize).matrix

\* a step changes the factor only inside tau_tr of the fill that took the step
MergeStepFrame ==
    \A i \in Rows(matrix) : \A c \in Cols(matrix) :
        matrix'.e[i][c] # matrix.e[i][c]
        => \E t \in ret \ ret' :
               /\ t.kind \in {"product", "accumulate"}
               /\ InTopRight(t, i, c)

\* a frame finishes only when the three closures it forked have finished
JoinAfterChildren ==
    \A f \in w \ w' :
        Cardinality({ n \in 1..Len(applied) : applied[n].parent = <<f.at, f.size>> }) = 3

\* C23: in the merge branch the two diagonal recursions and the fill of the
\* top right block are tasks that write pairwise disjoint parts of the factor,
\* the fill takes its values from the basis alone, a frame returns only after
\* its three closures have finished, and every interleaving of the tasks
\* leaves the same factor.
C23_MergeTasksIndependent ==
    /\ [](TasksDisjoint /\ FinishedFillsFromBasis /\ MergeReturned)
    /\ [][MergeStepFrame /\ JoinAfterChildren]_vars

C23_Witness ==
    /\ pc = "done"
    /\ arg.householder_factor.nrows = DeepFactor
    /\ arg.essentials.nrows > DeepFactor
    /\ Len(applied) = 7
    /\ applied[1].kind = "accumulate" /\ applied[1].size = DeepFactor
    /\ applied[2].kind = "accumulate" /\ applied[2].size < DeepFactor
    /\ applied[3].kind = "upgrade" /\ applied[3].size = 1
    /\ matrix # arg.householder_factor

(***************************************************************************)
(* The general path of a single-block application as column tasks          *)
(*                                                                         *)
(* par is 0 for Par::Seq and n for Par::Rayon(n).  w is the temporary tmp, *)
(* ret the tasks that have not finished, each with its column range of the *)
(* temporary, its column range of the operand and the step of func it is   *)
(* at, applied the finished tasks in order, blocksize the value of n_tasks *)
(* and j the value of inner_parallelism.                                   *)
(***************************************************************************)
\* the `4` of Ord::min(.., 4)
MAX_TASKS == 4

\* crate::utils::thread::parallelism_degree
parallelism_degree(par) == IF par = 0 THEN 1 ELSE par

\* (M * K).saturating_mul(4 * M); no product of the model leaves the range of usize
WorkEstimate(M, K) == (M * K) * (4 * M)

\* mutant: the work estimate is not looked at
NTasksIgnoringWork(par, M, K, threshold) ==
    Min(Min(parallelism_degree(par), K), MAX_TASKS)

\* n_tasks after lines 479-487
NTasks(par, M, K, threshold) ==
    IF WorkEstimate(M, K) < threshold
    THEN 1
    ELSE Min(Min(parallelism_degree(par), K), MAX_TASKS)

\* mutant: the threads are divided without the test par >= 2 * n_tasks
InnerParallelismAlwaysDivided(par, n_tasks) ==
    IF par = 0 THEN 0 ELSE par \div n_tasks

\* inner_parallelism after lines 489-501, for n_tasks > 0 or Par::Seq
InnerParallelism(par, n_tasks) ==
    IF par = 0 THEN 0
    ELSE IF par >= 2 * n_tasks THEN par \div n_tasks
    ELSE 0

\* `par / n_tasks` with n_tasks = 0
InnerParallelismPanics(par, n_tasks) == par # 0 /\ n_tasks = 0

\* first column of chunk idx when n columns are cut into that many chunks
ColStart(n, chunks, idx) ==
    IF idx < n % chunks
    THEN idx * ((n \div chunks) + 1)
    ELSE (n % chunks) + idx * (n \div chunks)

\* par_col_partition_mut(chunks) of a matrix of n columns, as column ranges
par_col_partition(n, chunks) ==
    [idx \in 1..chunks |-> <<ColStart(n, chunks, idx - 1), ColStart(n, chunks, idx)>>]

\* a call of func on a pair of column ranges
FuncTask(tmp_cols, matrix_cols, step) ==
    [tmp_cols |-> tmp_cols, cols |-> matrix_cols, step |-> step]

\* mutant: every task is handed the first chunk of the temporary
ZipFirstChunk(tmp_parts, matrix_parts) ==
    { FuncTask(tmp_parts[1], matrix_parts[idx], "tmp") : idx \in DOMAIN matrix_parts }

\* zip_eq of the two partitions
ZipEq(tmp_parts, matrix_parts) ==
    { FuncTask(tmp_parts[idx], matrix_parts[idx], "tmp") : idx \in DOMAIN matrix_parts }

\* lines 574-586: func on everything, or on the zipped partitions
FuncTasks(n_tasks, tmp_ncols, matrix_ncols) ==
    IF n_tasks <= 1
    THEN { FuncTask(<<0, tmp_ncols>>, <<0, matrix_ncols>>, "tmp") }
    ELSE ZipEq(par_col_partition(tmp_ncols, n_tasks),
               par_col_partition(matrix_ncols, n_tasks))

\* the columns [r[1], r[2]) of A
ColumnsOf(A, r) == submatrix_range(A, 0, A.nrows, r[1], r[2])

essentials_top == submatrix_range(arg.householder_basis, 0, arg.householder_basis.ncols,
                                  0, arg.householder_basis.ncols)

essentials_bot == submatrix_range(arg.householder_basis, arg.householder_basis.ncols,
                                  arg.householder_basis.nrows, 0, arg.householder_basis.ncols)

\* matrix.split_rows_with_mut(midpoint) inside func
FuncTop(mat) == submatrix_range(mat, 0, arg.householder_basis.ncols, 0, mat.ncols)

FuncBot(mat) ==
    submatrix_range(mat, arg.householder_basis.ncols, arg.householder_basis.nrows, 0, mat.ncols)

MaxCols == 5      \* most columns of the operand of a task run
MaxThreads == 8   \* most threads of Par::Rayon

\* <<M, N>> of the basis
TaskShapes == {<<2, 1>>, <<3, 2>>}

\* values returned by gemm::get_threading_threshold()
Thresholds == {0, 1, 100}

TaskScenario(s, k, par, threshold, forward, seed) ==
    [householder_basis |-> Fill(s[1], s[2], 0),
     householder_factor |-> FillFactor(s[2], s[2], 1),
     conj |-> (seed = 0),
     matrix |-> Fill(s[1], k, 2),
     forward |-> forward,
     par |-> par,
     threshold |-> threshold,
     tmp |-> Fill(s[2], k, 4 + seed)]

TaskScenarios ==
    { TaskScenario(s, k, par, threshold, forward, seed) :
      s \in TaskShapes, k \in {0, 1, 3, MaxCols - 1, MaxCols},
      par \in {0, 1, 3, MaxThreads - 1, MaxThreads},
      threshold \in Thresholds, forward \in BOOLEAN, seed \in 0..1 }

TaskIdle == ld = Null /\ alpha = Null /\ head = Null /\ tail = Null

InitTasks ==
    /\ \E sc \in TaskScenarios : arg = sc /\ matrix = sc.matrix /\ w = sc.tmp
    /\ pc = "call"
    /\ ret = {}
    /\ applied = <<>>
    /\ blocksize = 0
    /\ j = 0
    /\ TaskIdle

\* lines 479-501 end in a division by zero
TasksDivideByZero ==
    /\ pc = "call"
    /\ InnerParallelismPanics(arg.par,
           NTasks(arg.par, matrix.nrows, matrix.ncols, arg.threshold))
    /\ pc' = "panic"
    /\ UNCHANGED <<arg, matrix, j, blocksize, applied, ld, w, alpha, head, tail, ret>>

\* lines 479-501, then the call of func or the for_each over the partitions
TasksStart ==
    /\ pc = "call"
    /\ \E n_tasks \in {NTasks(arg.par, matrix.nrows, matrix.ncols, arg.threshold)} :
           /\ ~InnerParallelismPanics(arg.par, n_tasks)
           /\ blocksize' = n_tasks
           /\ j' = InnerParallelism(arg.par, n_tasks)
           /\ ret' = FuncTasks(n_tasks, w.ncols, matrix.ncols)
    /\ pc' = "running"
    /\ UNCHANGED <<arg, matrix, applied, ld, w, alpha, head, tail>>

\* func, lines 506-529: tmp = essentials* x matrix on the columns of the task
TaskTmp ==
    \E t \in ret :
        /\ pc = "running" /\ t.step = "tmp"
        /\ w' = WriteBack(w, 0, t.tmp_cols[1],
                    GeneralTmp(essentials_top, essentials_bot,
                               FuncTop(ColumnsOf(matrix, t.cols)),
                               FuncBot(ColumnsOf(matrix, t.cols)), arg.conj))
        /\ ret' = (ret \ {t}) \cup {FuncTask(t.tmp_cols, t.cols, "solve")}
        /\ UNCHANGED <<pc, arg, matrix, j, blocksize, applied, ld, alpha, head, tail>>

\* func, lines 532-546: the triangular solve on the columns of the temporary
TaskSolve ==
    \E t \in ret :
        /\ pc = "running" /\ t.step = "solve"
        /\ w' = WriteBack(w, 0, t.tmp_cols[1],
                    GeneralSolve(arg.householder_factor, arg.conj, arg.forward,
                                 ColumnsOf(w, t.tmp_cols)))
        /\ ret' = (ret \ {t}) \cup {FuncTask(t.tmp_cols, t.cols, "update")}
        /\ UNCHANGED <<pc, arg, matrix, j, blocksize, applied, ld, alpha, head, tail>>

\* func, lines 549-571: the operand columns of the task are updated
TaskUpdate ==
    \E t \in ret :
        /\ pc = "running" /\ t.step = "update"
        /\ matrix' = WriteBack(matrix, 0, t.cols[1],
                         GeneralUpdate(ColumnsOf(matrix, t.cols), essentials_top, essentials_bot,
                                       FuncTop(ColumnsOf(matrix, t.cols)),
                                       FuncBot(ColumnsOf(matrix, t.cols)),
                                       arg.conj, ColumnsOf(w, t.tmp_cols)))
        /\ ret' = ret \ {t}
        /\ applied' = Append(applied, t)
        /\ UNCHANGED <<pc, arg, j, blocksize, ld, w, alpha, head, tail>>

\* func has returned, or for_each has with every task finished
TasksReturn ==
    /\ pc = "running"
    /\ ret = {}
    /\ pc' = "done"
    /\ UNCHANGED <<arg, matrix, j, blocksize, applied, ld, w, alpha, head, tail, ret>>

NextTasks == TasksDivideByZero \/ TasksStart \/ TaskTmp \/ TaskSolve \/ TaskUpdate \/ TasksReturn

SpecTasks == InitTasks /\ [][NextTasks]_vars

(***************************************************************************)
(* Properties of the column tasks                                          *)
(***************************************************************************)
TasksForked == pc \in {"running", "done"}

\* the tasks of the call, finished or not
AllTasks == ret \cup { applied[n] : n \in 1..Len(applied) }

Within(c, r) == r[1] <= c /\ c < r[2]

\* every operand column belongs to exactly one task, and each task has the
\* same columns of the temporary as of the operand
ColumnsShared ==
    /\ \A c \in Cols(matrix) :
           Cardinality({ r \in { t.cols : t \in AllTasks } : Within(c, r) }) = 1
    /\ \A t \in AllTasks :
           /\ t.tmp_cols = t.cols
           /\ 0 <= t.cols[1] /\ t.cols[1] <= t.cols[2] /\ t.cols[2] <= matrix.ncols
    /\ Cardinality({ t.cols : t \in AllTasks }) = Cardinality(AllTasks)

\* the operand of the call after one run of func over all its columns
OneTaskResult ==
    GeneralFunc(arg.householder_basis, arg.householder_factor, arg.conj,
                arg.matrix, arg.forward)

\* a step changes the temporary and the operand only in the columns of the
\* task that took it
TaskStepFrame ==
    \A t \in ret \ ret' :
        /\ \A i \in Rows(matrix) : \A c \in Cols(matrix) :
               matrix'.e[i][c] # matrix.e[i][c] => Within(c, t.cols)
        /\ \A i \in Rows(w) : \A c \in Cols(w) :
               w'.e[i][c] # w.e[i][c] => Within(c, t.cols)

\* C24: the general path runs at most 4 tasks at a time; their operand column
\* ranges are pairwise disjoint and cover every operand column, each task
\* has the same column range of the temporary, every step of a task stays
\* inside its columns, and whatever the order of the tasks the operand on
\* return is the one a single task over all columns leaves.
C24_ColumnTasks ==
    /\ [](TasksForked
            => /\ Cardinality(ret) <= 4
               /\ Cardinality(AllTasks) <= 4
               /\ ColumnsShared
               /\ (pc = "done" => ret = {} /\ matrix = OneTaskResult))
    /\ [][TaskStepFrame]_vars

C24_Witness ==
    /\ pc = "done"
    /\ Len(applied) = 4
    /\ matrix.ncols = MaxCols
    /\ applied[1].cols[1] > applied[2].cols[1]
    /\ applied[4].cols[1] = 0
    /\ arg.householder_basis.ncols = 2
    /\ matrix # arg.matrix

threads == parallelism_degree(arg.par)

\* the number of threads a task may use: 1 when sequential
PerTaskThreads == IF j = 0 THEN 1 ELSE j

WorkReachesThreshold ==
    (arg.matrix.nrows * arg.matrix.ncols) * (4 * arg.matrix.nrows) >= arg.threshold

\* C30: with a positive threading threshold n_tasks is between 1 and
\* min(4, thread count, operand columns) when the work estimate M*K*4M reaches
\* the threshold and is 1 otherwise; a task gets floor(threads / n_tasks)
\* threads when threads >= 2 * n_tasks and runs sequentially otherwise, so
\* that n_tasks times the per-task thread count never exceeds the thread
\* count, and no division by zero occurs.
C30_TaskCount ==
    arg.threshold > 0
    => /\ pc # "panic"
       /\ TasksForked
            => /\ WorkReachesThreshold
                    => /\ 1 <= blocksize
                       /\ blocksize <= Min(4, Min(threads, arg.matrix.ncols))
               /\ ~WorkReachesThreshold => blocksize = 1
               /\ j = (IF threads >= 2 * blocksize THEN threads \div blocksize ELSE 0)
               /\ blocksize * PerTaskThreads <= threads

C30_Witness ==
    /\ pc = "done"
    /\ arg.threshold = 100
    /\ arg.par = MaxThreads - 1
    /\ blocksize = 3
    /\ j = 2
    /\ Len(applied) = 3

(***************************************************************************)
(* The blocks of the two sequence drivers                                  *)
(***************************************************************************)
RECURSIVE ForwardBlocks(_, _, _)

\* the blocks [j_prev, j) of `while *j > 0`, in the order of the loop
ForwardBlocks(jj, bs, B) ==
    IF jj > 0
    THEN <<[c |-> ForwardPrev(jj, bs), width |-> jj - ForwardPrev(jj, bs)]>>
         \o ForwardBlocks(ForwardPrev(jj, bs), B, B)
    ELSE <<>>

RECURSIVE TransposeBlocks(_, _, _)

\* the blocks [j, j_next) of `while let Some(j) = size.try_check(*J)`, in the
\* order of the loop
TransposeBlocks(J, size, B) ==
    IF J < size
    THEN <<[c |-> J, width |-> advance(size, J, B) - J]>>
         \o TransposeBlocks(advance(size, J, B), size, B)
    ELSE <<>>

\* the blocks of the forward driver for N reflectors and a factor of B rows
ForwardDriverBlocks(N, B) == ForwardBlocks(ForwardStart(N), ForwardFirstBlocksize(N, B), B)

TransposeDriverBlocks(N, B) == TransposeBlocks(0, N, B)

MaxReflectors == 9    \* most reflectors of a block list computed on its own
MaxFactorRows == 4    \* most factor rows of a block list computed on its own

\* F is T read from its end
ReverseOf(F, T) ==
    /\ Len(F) = Len(T)
    /\ \A i \in 1..Len(F) : F[i] = T[Len(T) + 1 - i]

\* the blocks of S tile [0, N) and have between 1 and B columns
Tiles(S, N, B) ==
    /\ \A i \in 1..Len(S) : S[i].width >= 1 /\ S[i].width <= B /\ S[i].c >= 0
    /\ \A n \in 0..(N - 1) :
           Cardinality({ i \in 1..Len(S) : S[i].c <= n /\ n < S[i].c + S[i].width }) = 1
    /\ \A i \in 1..Len(S) : S[i].c + S[i].width <= N

\* the blocks applied by the run, without the direction of the application
AppliedList == [i \in 1..Len(applied) |-> [c |-> applied[i].c, width |-> applied[i].width]]

\* C25: for every reflector count N >= 0 and factor row count B >= 1 the
\* forward and the transpose sequence driver cut [0, N) into the same blocks,
\* which tile [0, N) and have between 1 and B columns each; the drivers differ
\* only in the order of the blocks, and with N = 0 neither applies a block and
\* the operand is unchanged.
C25_SameBlocks ==
    /\ \A N \in 0..MaxReflectors : \A B \in 1..MaxFactorRows :
           /\ ReverseOf(ForwardDriverBlocks(N, B), TransposeDriverBlocks(N, B))
           /\ Tiles(TransposeDriverBlocks(N, B), N, B)
    /\ (arg.entry \in SeqEntries /\ pc = "done")
       => /\ AppliedList = (IF DriverOf(arg.entry) = "forward"
                            THEN ForwardDriverBlocks(NumReflectors, FactorRows)
                            ELSE TransposeDriverBlocks(NumReflectors, FactorRows))
          /\ ReverseOf(ForwardDriverBlocks(NumReflectors, FactorRows),
                       TransposeDriverBlocks(NumReflectors, FactorRows))
          /\ Tiles(AppliedList, NumReflectors, FactorRows)
          /\ NumReflectors = 0 => applied = <<>> /\ matrix = arg.matrix

C25_Witness ==
    /\ pc = "done"
    /\ arg.entry = "sequence_transpose_left"
    /\ Len(applied) = 2
    /\ applied[1].c = 0 /\ applied[1].width = FactorRows
    /\ applied[2].width < FactorRows
    /\ AppliedList = TransposeDriverBlocks(NumReflectors, FactorRows)
    /\ matrix # arg.matrix

(***************************************************************************)
(* The blocked update against successive rank-1 updates                    *)
(***************************************************************************)
\* column c of W as a matrix of one column
OneColumn(W, c) ==
    [nrows |-> W.nrows, ncols |-> 1, e |-> [i \in Rows(W) |-> [x \in {0} |-> W.e[i][c]]]]

\* `for j in 0..n` of run with a W of one column and an active rank of 1
RECURSIVE RankOneColumns(_, _)
RankOneColumns(st, jj) ==
    IF st # st \/ jj >= st.w.nrows \/ ~st.ok THEN st
    ELSE RankOneColumns(ColumnStep(st, jj, 1, arg.env.simd, arg.env.contiguous), jj + 1)

\* the operands x with column c of W and alpha[c] taken from the run `pass`
AfterPass(x, c, pass) ==
    [ld |-> pass.ld,
     w |-> [nrows |-> x.w.nrows, ncols |-> x.w.ncols,
            e |-> [i \in Rows(x.w) |-> [cc \in Cols(x.w) |->
                     IF cc = c THEN pass.w.e[i][0] ELSE x.w.e[i][cc]]]],
     alpha |-> [x.alpha EXCEPT ![c + 1] = pass.alpha[1]]]

\* a rank-1 update of x.ld by column c of x.w and x.alpha[c]
RankOneUpdate(x, c) ==
    AfterPass(x, c,
        RankOneColumns(RunState(x.ld, OneColumn(x.w, c), <<x.alpha[c + 1]>>, <<>>), 0))

\* rank-1 updates by the columns c, c + 1, .., k - 1 of W, one after the other
RECURSIVE SuccessiveRankOne(_, _, _)
SuccessiveRankOne(x, c, k) ==
    IF x # x \/ c >= k THEN x
    ELSE SuccessiveRankOne(RankOneUpdate(x, c), c + 1, k)

\* the closure r returns at least k at every column
ConstantRank == arg.entry = "clobber" \/ arg.mode \in {"full", "over"}

\* C26: with the active rank constant at k, the blocked update leaves the
\* factorization, W and alpha as k successive rank-1 updates leave them, a
\* full pass over all columns with column 0 of W and alpha[0], then with
\* column 1, and so on; the sub-block width of 4 does not show in the result.
C26_BlockedIsSuccessive ==
    (pc = "done" /\ UpdShapesOk(arg) /\ ConstantRank)
    => [ld |-> ld, w |-> w, alpha |-> alpha]
       = SuccessiveRankOne([ld |-> arg.ld, w |-> arg.w, alpha |-> arg.alpha], 0, arg.w.ncols)

C26_Witness ==
    /\ pc = "done"
    /\ UpdShapesOk(arg) /\ ConstantRank
    /\ arg.ld.nrows = MaxN
    /\ arg.w.ncols = BLOCKSIZE + 1
    /\ ~arg.env.simd
    /\ ld # arg.ld
    /\ w.e[MaxN - 1][BLOCKSIZE] # arg.w.e[MaxN - 1][BLOCKSIZE]
    /\ alpha[BLOCKSIZE + 1] # arg.alpha[BLOCKSIZE + 1]

(***************************************************************************)
(* What rank_r_update_clobber reads and writes                             *)
(***************************************************************************)
\* A with every entry above the diagonal replaced by z
UpperSetTo(A, z) ==
    [nrows |-> A.nrows, ncols |-> A.ncols,
     e |-> [i \in Rows(A) |-> [c \in Cols(A) |-> IF i < c THEN z ELSE A.e[i][c]]]]

\* the column step gives out2 on the buffer with its upper triangle set to z
\* where it gives out1 on the buffer itself: same outcome, same W and alpha,
\* same entries on and below the diagonal, and z still above it
UpperIgnored(out1, out2, z) ==
    /\ out2.ok = out1.ok
    /\ out2.w = out1.w
    /\ out2.alpha = out1.alpha
    /\ out2.ld = UpperSetTo(out1.ld, z)

\* the column step about to run does not depend on the entries above the diagonal
NextStepIgnoresUpper ==
    (pc = "run" /\ j < w.nrows)
    => \A z \in {Cx(5, -3), Cx(0, 0)} :
           UpperIgnored(
               ColumnStep(RunState(ld, w, alpha, <<>>), j, w.ncols,
                          arg.env.simd, arg.env.contiguous),
               ColumnStep(RunState(UpperSetTo(ld, z), w, alpha, <<>>), j, w.ncols,
                          arg.env.simd, arg.env.contiguous),
               z)

\* the entries above the diagonal and row 0 of W are as passed
UpperAndFirstRowKept ==
    /\ \A i \in Rows(ld) : \A c \in Cols(ld) : i < c => ld.e[i][c] = arg.ld.e[i][c]
    /\ w.nrows > 0 => w.e[0] = arg.w.e[0]

\* a step writes the factorization only in column j from the diagonal down
\* and W only below row j; each pivot it logs has read row j of W
ClobberStepFrame ==
    /\ \A i \in Rows(ld) : \A c \in Cols(ld) :
           ld'.e[i][c] # ld.e[i][c] => (pc = "run" /\ c = j /\ i >= j)
    /\ \A i \in Rows(w) : \A c \in Cols(w) :
           w'.e[i][c] # w.e[i][c] => (pc = "run" /\ i > j)
    /\ \A i \in 1..Len(NewPivots) : NewPivots[i].p = w.e[j][NewPivots[i].k]
    /\ alpha' # alpha => pc = "run"

\* C27: rank_r_update_clobber neither reads nor writes the entries above the
\* diagonal of the factorization buffer; at column step j it writes only
\* entry (j, j), the entries below it in column j, alpha and the rows below j
\* of W, so that row j of W is read and not written at step j, row 0 of W
\* keeps its input value and the columns before j are not written again.
C27_ClobberFrame ==
    /\ []((arg.entry = "clobber" /\ UpdShapesOk(arg))
            => (NextStepIgnoresUpper /\ UpperAndFirstRowKept))
    /\ [][(arg.entry = "clobber" /\ UpdShapesOk(arg)) => ClobberStepFrame]_vars

C27_Witness ==
    /\ arg.entry = "clobber" /\ UpdShapesOk(arg)
    /\ pc = "done"
    /\ arg.ld.nrows = MaxN
    /\ arg.w.ncols = BLOCKSIZE + 1
    /\ ~arg.env.simd
    /\ ld.e[0][MaxN - 1] = arg.ld.e[0][MaxN - 1]
    /\ ld.e[MaxN - 1][0] # arg.ld.e[MaxN - 1][0]
    /\ ld.e[0][0] # arg.ld.e[0][0]
    /\ w.e[0] = arg.w.e[0]
    /\ w.e[MaxN - 1] # arg.w.e[MaxN - 1]
    /\ alpha # arg.alpha

(***************************************************************************)
(* The recursion of upgrade_householder_factor by dimensions               *)
(*                                                                         *)
(* Which branch a call takes and where it splits depends on the dimension  *)
(* of its buffer, blocksize and prev_blocksize only.  ret is the stack of  *)
(* calls still to be made, the next one first, each with the first column  *)
(* and the dimension of its buffer; applied logs the calls that did not    *)
(* recurse and j counts the calls made.  The basis has rows enough for     *)
(* every split.                                                            *)
(***************************************************************************)
MaxDim == 20      \* largest dimension of a factor buffer of a recursion run

\* blocksize and prev_blocksize of the recursion runs
RecursionBlocks == {1, 2, 3, 4, 6, 8, 9, 16, 18, 32}

\* a square buffer of the given dimension, by its shape alone
SquareOf(size) == [nrows |-> size, ncols |-> size]

\* the calls on tau_tl and tau_br of a buffer split at mid
HalvesOf(t, mid) ==
    <<[at |-> t.at, size |-> mid], [at |-> t.at + mid, size |-> t.size - mid]>>

\* the assertion of the branch block_count > 1
MultiBlockSizesOk(bsz, prev_blocksize) ==
    bsz > prev_blocksize /\ bsz % prev_blocksize = 0

InitRecursion ==
    /\ \E n \in 0..MaxDim : \E bsz \in RecursionBlocks : \E prev \in RecursionBlocks :
           /\ arg = [nrows |-> n, blocksize |-> bsz, prev_blocksize |-> prev]
           /\ ret = <<[at |-> 0, size |-> n]>>
    /\ pc = "call"
    /\ applied = <<>>
    /\ j = 0
    /\ matrix = Null /\ blocksize = 0 /\ ld = Null /\ w = Null
    /\ alpha = Null /\ head = Null /\ tail = Null

\* the call on top of the stack returns at lines 113-115
RecursionReturnEarly ==
    /\ pc \in {"call", "running"} /\ ret # <<>>
    /\ UpgradeNothingToDo(SquareOf(Head(ret).size), arg.blocksize, arg.prev_blocksize)
    /\ ret' = Tail(ret)
    /\ applied' = Append(applied, [at |-> Head(ret).at, size |-> Head(ret).size,
                                  kind |-> "return"])
    /\ j' = j + 1
    /\ pc' = "running"
    /\ UNCHANGED <<arg, matrix, blocksize, ld, w, alpha, head, tail>>

\* the call on top of the stack fails the assertion of lines 125-128
RecursionAssertFails ==
    /\ pc \in {"call", "running"} /\ ret # <<>>
    /\ ~UpgradeNothingToDo(SquareOf(Head(ret).size), arg.blocksize, arg.prev_blocksize)
    /\ DivCeil(Head(ret).size, arg.blocksize) > 1
    /\ ~MultiBlockSizesOk(arg.blocksize, arg.prev_blocksize)
    /\ j' = j + 1
    /\ pc' = "panic"
    /\ UNCHANGED <<arg, matrix, blocksize, applied, ld, w, alpha, head, tail, ret>>

\* the call on top of the stack splits at block_count / 2 and recurses twice
RecursionMultiBlock ==
    /\ pc \in {"call", "running"} /\ ret # <<>>
    /\ ~UpgradeNothingToDo(SquareOf(Head(ret).size), arg.blocksize, arg.prev_blocksize)
    /\ DivCeil(Head(ret).size, arg.blocksize) > 1
    /\ MultiBlockSizesOk(arg.blocksize, arg.prev_blocksize)
    /\ ret' = HalvesOf(Head(ret), MultiBlockMid(Head(ret).size, arg.blocksize)) \o Tail(ret)
    /\ j' = j + 1
    /\ pc' = "running"
    /\ UNCHANGED <<arg, matrix, blocksize, applied, ld, w, alpha, head, tail>>

\* the call on top of the stack recomputes its block, lines 158-185
RecursionGram ==
    /\ pc \in {"call", "running"} /\ ret # <<>>
    /\ ~UpgradeNothingToDo(SquareOf(Head(ret).size), arg.blocksize, arg.prev_blocksize)
    /\ DivCeil(Head(ret).size, arg.blocksize) <= 1
    /\ arg.prev_blocksize < UPGRADE_BASE
    /\ ret' = Tail(ret)
    /\ applied' = Append(applied, [at |-> Head(ret).at, size |-> Head(ret).size,
                                  kind |-> "recompute"])
    /\ j' = j + 1
    /\ pc' = "running"
    /\ UNCHANGED <<arg, matrix, blocksize, ld, w, alpha, head, tail>>

\* the call on top of the stack splits at a multiple of prev_blocksize and
\* recurses twice, lines 186-218
RecursionMerge ==
    /\ pc \in {"call", "running"} /\ ret # <<>>
    /\ ~UpgradeNothingToDo(SquareOf(Head(ret).size), arg.blocksize, arg.prev_blocksize)
    /\ DivCeil(Head(ret).size, arg.blocksize) <= 1
    /\ arg.prev_blocksize >= UPGRADE_BASE
    /\ ret' = HalvesOf(Head(ret), MergeMid(Head(ret).size, arg.prev_blocksize)) \o Tail(ret)
    /\ j' = j + 1
    /\ pc' = "running"
    /\ UNCHANGED <<arg, matrix, blocksize, applied, ld, w, alpha, head, tail>>

\* no call is left: the outermost call returns
RecursionDone ==
    /\ pc = "running" /\ ret = <<>>
    /\ pc' = "done"
    /\ UNCHANGED <<arg, matrix, j, blocksize, applied, ld, w, alpha, head, tail, ret>>

NextRecursion ==
    \/ RecursionReturnEarly \/ RecursionAssertFails \/ RecursionMultiBlock
    \/ RecursionGram \/ RecursionMerge \/ RecursionDone

\* a call that can be made is made
SpecRecursion == InitRecursion /\ [][NextRecursion]_vars /\ WF_vars(NextRecursion)

(***************************************************************************)
(* Termination of the recursion                                            *)
(***************************************************************************)
\* the calls pushed by a step are on buffers of at least 1 and fewer columns
\* than the buffer of the call that made them
ChildrenSmaller ==
    Len(ret') > Len(ret)
    => /\ Len(ret') = Len(ret) + 1
       /\ ret'[1].size >= 1 /\ ret'[1].size < Head(ret).size
       /\ ret'[2].size >= 1 /\ ret'[2].size < Head(ret).size
       /\ ret'[1].size + ret'[2].size = Head(ret).size

\* a call that does not recurse has a buffer of at most prev_blocksize
\* columns, or equal block sizes, or recomputes its block
LeavesAsStated ==
    \A n \in 1..Len(applied) :
        \/ applied[n].size <= arg.prev_blocksize
        \/ arg.blocksize = arg.prev_blocksize
        \/ applied[n].kind = "recompute"

\* C28: for every factor dimension and every blocksize >= 1 and
\* prev_blocksize >= 1 the recursion terminates: each recursive call gets a
\* buffer of strictly smaller dimension than its caller's, and the recursion
\* stops at buffers of at most prev_blocksize columns or at the full
\* recomputation.
C28_RecursionTerminates ==
    /\ <>(pc \in {"done", "panic"})
    /\ [](LeavesAsStated /\ j <= 2 * arg.nrows + 1)
    /\ [][ChildrenSmaller]_vars

C28_Witness ==
    /\ pc = "done"
    /\ arg.nrows = MaxDim
    /\ arg.blocksize = 4 /\ arg.prev_blocksize = 2
    /\ j > 9
    /\ \E n \in 1..Len(applied) : applied[n].kind = "recompute" /\ applied[n].size = 4
    /\ \E n \in 1..Len(applied) : applied[n].kind = "return" /\ applied[n].size = 1

(***************************************************************************)
(* The degenerate return of make_householder_in_place                      *)
(***************************************************************************)
\* the call has returned (+infinity, None)
DegenerateReturn ==
    /\ pc = "done"
    /\ ret.tau = from_real(infinity)
    /\ ret.inv = None

\* C29: when make_householder_in_place returns (+infinity, None) the tail is
\* as it was passed, and so is the head unless its magnitude is below the
\* minimum positive value, in which case the head is zero.
C29_DegenerateFrame ==
    DegenerateReturn
    => /\ tail = arg.tail
       /\ IF RLt(RSqrt(abs2(arg.head)), min_positive)
          THEN head = CZero
          ELSE head = arg.head

C29_Witness ==
    /\ DegenerateReturn
    /\ Len(arg.tail) = MaxTail
    /\ arg.head # CZero
    /\ RLt(RSqrt(abs2(arg.head)), min_positive)
    /\ head = CZero
    /\ tail = arg.tail


=============================================================================
